---- MODULE Spec2Model ----
(***************************************************************************)
(* hh-bot: the automation pipeline of AutomationOrchestrator               *)
(* (core/job_application_manager.py) on top of BrowserService              *)
(* (services/browser_service.py), HHApiService (services/hh_api_service.py)*)
(* and GeminiAIService (services/gemini_service.py).                       *)
(*                                                                         *)
(* The model is one orchestrator object.  Each of its methods is an        *)
(* operation that can be invoked on it when no other call is running;      *)
(* execute_automation_pipeline chains the stage methods, and the stage     *)
(* methods _ai_filter_vacancies, _initialize_browser_and_auth,             *)
(* _apply_to_vacancies and _create_stats can also be invoked on their own. *)
(* Python exceptions are modelled by what the handlers do with them:       *)
(* `except Exception` catches TypeError/AttributeError, and does not catch *)
(* KeyboardInterrupt.                                                      *)
(***************************************************************************)
EXTENDS Integers, Sequences, FiniteSets, TLC

\* ------------------------------------------------------------- bounds
\* longest list returned by the search / given to the AI filter
MaxFound == 2
\* longest candidate list given to the submission loop
MaxCands == 5
\* longest outcome list given to _create_stats on its own
MaxResults == 2
\* number of vacancy names apply_to_vacancy is called with on its own
MaxNames == 1
\* days the clock runs on
MaxDays == 8
\* largest value pause_min and pause_max are set to, in seconds
MaxPause == 4
\* number of analyze_vacancy_match calls followed
MaxAnalyses == 3
\* longest candidate list given to the AI filter on its own, over vacancies
\* of every field combination
MaxScored == 1
\* most Chrome instances one BrowserService object starts
MaxDrivers == 3

\* ------------------------------------------------- program constants
DEFAULT_MAX_APPLICATIONS == 40
\* ApplicationConfig.pause_min and pause_max, in seconds
DEFAULT_PAUSE_MIN == 3
DEFAULT_PAUSE_MAX == 6
\* DEFAULT_AI_THRESHOLD = 0.7, in tenths
MatchThreshold == 7
\* AppConstants.MIN_AI_SCORE / MAX_AI_SCORE, in tenths
MinAiScore == 0
MaxAiScore == 10

\* values of the field ApplicationConfig.max_applications: an int that nothing
\* validates (the prompt of the CLI reads it with int(input), which yields
\* negative integers too)
CapValues == {-1, 0, 2, 3}

None == "None"

\* ------------------------------------------------------ Python calls
\* Python's binding of a call's arguments to a signature: npos positional
\* arguments and the keyword arguments kwargs against the parameters params
\* (self left out), the last ndefaults of which have defaults.  A call that
\* does not bind raises TypeError before the callee's body runs.
CallBinds(npos, kwargs, params, ndefaults) ==
    /\ npos <= Len(params)
    /\ kwargs \subseteq {params[i] : i \in (npos + 1) .. Len(params)}
    /\ \A i \in 1 .. (Len(params) - ndefaults) : i <= npos \/ params[i] \in kwargs

\* HHApiService.filter_suitable_vacancies(self, vacancies, use_basic_filter=True)
FilterSuitableParams == <<"vacancies", "use_basic_filter">>

\* the call at job_application_manager.py:72-74:
\* filter_suitable_vacancies(all_vacancies, search_keywords=keywords or "")
FilterCallBinds == CallBinds(1, {"search_keywords"}, FilterSuitableParams, 1)

\* BrowserService.apply_to_vacancy(self, vacancy_url, vacancy_name)
ApplyToVacancyParams == <<"vacancy_url", "vacancy_name">>

\* the call at job_application_manager.py:159: apply_to_vacancy(vacancy)
ApplyCallBinds == CallBinds(1, {}, ApplyToVacancyParams, 0)

\* the fields of the dataclass ApplicationResult, in order; the last three
\* (already_applied, error_message, timestamp) have defaults
ApplicationResultFields ==
    <<"vacancy_id", "vacancy_name", "success", "already_applied",
      "error_message", "timestamp">>

\* ApplicationResult(vacancy_id=, vacancy_name=, success=, skipped=True,
\* error_message=) at browser_service.py:296-302
SkippedResultBinds ==
    CallBinds(0, {"vacancy_id", "vacancy_name", "success", "skipped", "error_message"},
              ApplicationResultFields, 3)

\* ---------------------------------------------------------- vacancies
\* What the site shows when an application to a vacancy is driven through
\* VacancyApplicator.apply_to_vacancy.
PageKinds == {"confirm", "no_button", "already", "no_modal", "not_confirmed"}

\* The vacancies of the model: the fields the filters read, and the page
\* the site serves for the vacancy.
VacancyKinds ==
    { [python |-> TRUE, exclude_kw |-> FALSE, archived |-> FALSE, junior |-> TRUE,
       exp_ok |-> TRUE, has_test |-> FALSE, page |-> "confirm"],
      [python |-> TRUE, exclude_kw |-> TRUE, archived |-> FALSE, junior |-> FALSE,
       exp_ok |-> TRUE, has_test |-> FALSE, page |-> "no_button"] }

Vacancy(n, k) ==
    [python |-> k.python, exclude_kw |-> k.exclude_kw, archived |-> k.archived,
     junior |-> k.junior, exp_ok |-> k.exp_ok, has_test |-> k.has_test,
     page |-> k.page, id |-> ToString(n), name |-> n]

\* the lists of at most n vacancies; the i-th one is named i
VacancyLists(n) ==
    UNION { { [i \in 1 .. m |-> Vacancy(i, ks[i])] : ks \in [1 .. m -> VacancyKinds] } :
            m \in 0 .. n }

\* every combination of the fields _basic_analysis reads
ScoredKinds ==
    [python : BOOLEAN, exclude_kw : {FALSE}, archived : BOOLEAN, junior : BOOLEAN,
     exp_ok : BOOLEAN, has_test : BOOLEAN, page : {"confirm"}]

\* the lists of at most n vacancies of these kinds
ScoredLists(n) ==
    UNION { { [i \in 1 .. m |-> Vacancy(i, ks[i])] : ks \in [1 .. m -> ScoredKinds] } :
            m \in 0 .. n }

\* four of them: no Python; Python only; Python with acceptable experience;
\* Python at junior level
AnalysedKinds ==
    { [python |-> FALSE, exclude_kw |-> FALSE, archived |-> FALSE, junior |-> TRUE,
       exp_ok |-> TRUE, has_test |-> FALSE, page |-> "confirm"],
      [python |-> TRUE, exclude_kw |-> FALSE, archived |-> TRUE, junior |-> FALSE,
       exp_ok |-> FALSE, has_test |-> TRUE, page |-> "confirm"],
      [python |-> TRUE, exclude_kw |-> FALSE, archived |-> FALSE, junior |-> FALSE,
       exp_ok |-> TRUE, has_test |-> FALSE, page |-> "confirm"],
      [python |-> TRUE, exclude_kw |-> FALSE, archived |-> FALSE, junior |-> TRUE,
       exp_ok |-> FALSE, has_test |-> FALSE, page |-> "confirm"] }

Names(vs) == {vs[i].name : i \in DOMAIN vs}

\* ------------------------------------------------------ ApplicationResult
ApplicationResult(name, success, already_applied, msg) ==
    [success |-> success, already_applied |-> already_applied, vacancy_id |-> "",
     vacancy_name |-> name, error_message |-> msg]

\* reading attribute a of a result: AttributeError when the object has none
HasAttr(r, a) == a \in DOMAIN r

\* the outcome kind of a result, as _log_application_result and
\* _create_stats classify it
IsSuccess(r) == r.success
IsAlreadyApplied(r) == ~r.success /\ r.already_applied
IsSkipped(r) == ~r.success /\ ~r.already_applied /\ HasAttr(r, "skipped") /\ r["skipped"]
IsFailed(r) == ~IsSuccess(r) /\ ~IsAlreadyApplied(r) /\ ~IsSkipped(r)


\* the result built in the loop's except branch
ErrorResult(v, msg) == ApplicationResult(v.name, FALSE, FALSE, msg)

\* ------------------------------------------------------- rule filter
\* VacancyFilter._is_suitable_basic
IsSuitableBasic(v) == v.python /\ ~v.exclude_kw /\ ~v.archived

\* VacancyFilter.filter_suitable / HHApiService.filter_suitable_vacancies
FilterSuitable(vs) == SelectSeq(vs, IsSuitableBasic)

\* mutant: the except branch of _search_and_filter_vacancies returns the
\* unfiltered search result
SearchAndFilterUnfiltered(fs) == fs

\* AutomationOrchestrator._search_and_filter_vacancies, given what
\* search_vacancies returned: the TypeError of a filter call that does not
\* bind is caught by the method's `except Exception`, which returns []
SearchAndFilter(fs) ==
    IF fs = <<>> THEN <<>>
    ELSE IF FilterCallBinds THEN FilterSuitable(fs)
    ELSE <<>>

\* ------------------------------------------------------------ scoring
\* a Python float: a number, in tenths, or NaN
Float(x) == [v |-> x, nan |-> FALSE]
NaN == [v |-> 0, nan |-> TRUE]

\* a < b on floats: False when either is NaN
FloatLess(a, b) == ~a.nan /\ ~b.nan /\ a.v < b.v

\* the builtins min(a, b) and max(a, b): the first argument, unless the
\* second compares smaller (larger)
PyMin(a, b) == IF FloatLess(b, a) THEN b ELSE a
PyMax(a, b) == IF FloatLess(a, b) THEN b ELSE a

\* What one Gemini request comes to.  kind: "request_error" (requests.post
\* raises, a timeout included), "non_200", "non_json" (no JSON object in the
\* answer, or one json.loads rejects), "no_match_score" (an object without
\* the key), and, for an object with a match_score, what the value is:
\* "text" (a string float() rejects), "null", "boolean" (true), "nan" (the
\* literal NaN, which json.loads accepts) or "number".  score: the value
\* float() makes of it, where it makes one.  reasons: the "match_reasons" of
\* the object: "list" (a list of strings), "empty" (the list []), "missing"
\* (no such key).
AiResponse(kind, score, reasons) == [kind |-> kind, score |-> score, reasons |-> reasons]

\* the kinds of response that carry no match_score float() converts
FailureKinds ==
    {"request_error", "non_200", "non_json", "no_match_score", "text", "null"}

AiResponses ==
    {AiResponse(k, Float(0), "list") : k \in FailureKinds}
        \cup {AiResponse("boolean", Float(10), "list"), AiResponse("nan", NaN, "list")}
        \cup {AiResponse("number", Float(x), "list") : x \in {3, 7, 12}}

\* GeminiApiClient.generate_content returns None
ResponseIsNone(resp) == resp.kind \in {"request_error", "non_200", "non_json"}

\* float(response["match_score"]) raises (ValueError, TypeError)
FloatRaises(resp) == resp.kind \in {"text", "null"}

\* a junior vacancy with an acceptable experience id gets both additions
BasicScoreAddsBothLevels(v) ==
    IF ~v.python THEN 1
    ELSE LET level == (IF v.junior THEN 3 ELSE 0) + (IF v.exp_ok THEN 2 ELSE 0)
             test == IF v.has_test THEN 0 ELSE 1
             fresh == IF v.archived THEN 0 ELSE 1
             score == 4 + level + test + fresh
         IN  IF score < 10 THEN score ELSE 10

\* VacancyAnalyzer._basic_analysis, the score in tenths
BasicScore(v) ==
    IF ~v.python THEN 1
    ELSE LET level == IF v.junior THEN 3 ELSE IF v.exp_ok THEN 2 ELSE 0
             test == IF v.has_test THEN 0 ELSE 1
             fresh == IF v.archived THEN 0 ELSE 1
             score == 4 + level + test + fresh
         IN  IF score < 10 THEN score ELSE 10

\* VacancyAnalyzer._basic_analysis, the reasons
BasicReasons(v) ==
    IF ~v.python THEN <<"no_python">>
    ELSE <<"has_python">>
            \o (IF v.junior THEN <<"junior_level">>
                ELSE IF v.exp_ok THEN <<"acceptable_experience">> ELSE <<>>)
            \o (IF v.has_test THEN <<"has_test">> ELSE <<"no_test">>)
            \o (IF v.archived THEN <<>> ELSE <<"not_archived">>)

\* response.get("match_reasons", ["AI анализ выполнен"]) (line 189)
AiReasons(resp) ==
    CASE resp.reasons = "list" -> <<"ai_reason">>
      [] resp.reasons = "empty" -> <<>>
      [] OTHER -> <<"ai_analysis_done">>

\* VacancyAnalyzer._validate_score: max(MIN_AI_SCORE, min(MAX_AI_SCORE, score))
ValidateScore(s) == PyMax(Float(MinAiScore), PyMin(Float(MaxAiScore), s)).v

\* VacancyAnalyzer.analyze, the score: _basic_analysis when there is no
\* response or no match_score in it (line 193) and when float() raises
\* (line 198), the validated match_score otherwise
Analyze(v, resp) ==
    IF ResponseIsNone(resp) \/ resp.kind = "no_match_score" \/ FloatRaises(resp)
    THEN BasicScore(v)
    ELSE ValidateScore(resp.score)

\* VacancyAnalyzer.analyze, the reasons
AnalyzeReasons(v, resp) ==
    IF ResponseIsNone(resp) \/ resp.kind = "no_match_score" \/ FloatRaises(resp)
    THEN BasicReasons(v)
    ELSE AiReasons(resp)

\* the second call of _basic_analysis on a service adds the first call's
\* score to its own
AnalyzeVacancyMatchAccumulates(v, available, resp, earlier) ==
    [score |-> IF ~available
               THEN BasicScore(v) + (IF earlier = <<>> THEN 0 ELSE earlier[Len(earlier)].score)
               ELSE Analyze(v, resp),
     reasons |-> IF ~available THEN BasicReasons(v) ELSE AnalyzeReasons(v, resp),
     available |-> available, vacancy |-> v]

\* GeminiAIService.analyze_vacancy_match (lines 321-327), after the calls
\* that returned earlier: _basic_analysis of a new VacancyAnalyzer when the
\* service is not available, analyzer.analyze otherwise
AnalyzeVacancyMatch(v, available, resp, earlier) ==
    [score |-> IF ~available THEN BasicScore(v) ELSE Analyze(v, resp),
     reasons |-> IF ~available THEN BasicReasons(v) ELSE AnalyzeReasons(v, resp),
     available |-> available, vacancy |-> v]

\* the score GeminiAIService.should_apply decides on: the one of
\* _basic_analysis when the service is not available (lines 331-336)
ScoreOf(v, available, resp) ==
    IF ~available THEN BasicScore(v) ELSE Analyze(v, resp)

\* should_apply assigns vacancy.ai_match_score and vacancy.ai_match_reasons:
\* VacancyAnalyzer.should_apply does (lines 279-280), the branch of
\* GeminiAIService.should_apply for a service that is not available drops
\* the reasons and assigns nothing (lines 331-336)
StoresAnalysis(available) == available

\* a score equal to the threshold is turned down
ShouldApplyAboveThreshold(v, available, resp) ==
    ScoreOf(v, available, resp) > MatchThreshold

\* GeminiAIService.should_apply
ShouldApply(v, available, resp) == ScoreOf(v, available, resp) >= MatchThreshold

\* ----------------------------------------------------- the applicator
\* VacancyApplicator.apply_to_vacancy, by the page the site serves.  The
\* Skipped result is built with a keyword the dataclass does not have: the
\* TypeError is caught by the method's own `except Exception` and turned
\* into a result with success = False.
ApplicatorApply(v) ==
    CASE v.page = "no_button" -> ApplicationResult(v.name, FALSE, FALSE, "button_not_found")
      [] v.page = "already" -> ApplicationResult(v.name, FALSE, TRUE, "already_applied")
      [] v.page = "confirm" -> ApplicationResult(v.name, TRUE, FALSE, "")
      [] v.page = "no_modal" ->
            IF SkippedResultBinds
            THEN [success |-> FALSE, already_applied |-> FALSE, vacancy_id |-> "",
                  vacancy_name |-> v.name, error_message |-> "modal_not_found",
                  skipped |-> TRUE]
            ELSE ApplicationResult(v.name, FALSE, FALSE, "TypeError")
      [] OTHER -> ApplicationResult(v.name, FALSE, FALSE, "submit_failed")

\* BrowserService.is_ready (the applicator is set and reset with the driver)
IsReady(drv, auth) == drv # None /\ auth

\* BrowserService.apply_to_vacancy(vacancy_url, vacancy_name)
BrowserApplyToVacancy(v, drv, auth) ==
    IF ~IsReady(drv, auth)
    THEN ApplicationResult(v.name, FALSE, FALSE, "not_ready")
    ELSE ApplicatorApply(v)

\* AutomationOrchestrator._log_application_result raises AttributeError when
\* it gets as far as reading result.skipped on an object that has none
LogResultRaises(r) == ~r.success /\ ~r.already_applied /\ ~HasAttr(r, "skipped")

\* ------------------------------------------------------------- stats
\* _create_stats raises AttributeError when a result has no `skipped`
StatsRaises(rs) == \E i \in DOMAIN rs : ~HasAttr(rs[i], "skipped")

\* sum(1 for r in application_results if r.<flag>)
CountSuccess(rs) == Cardinality({i \in DOMAIN rs : rs[i].success})
CountAlready(rs) == Cardinality({i \in DOMAIN rs : rs[i].already_applied})
CountSkipped(rs) == Cardinality({i \in DOMAIN rs : rs[i]["skipped"]})

\* the dict _create_stats returns
CreateStats(rs) ==
    LET total == Len(rs)
        successful == CountSuccess(rs)
        already == CountAlready(rs)
        skipped == CountSkipped(rs)
    IN  [already_applied |-> already, skipped |-> skipped, successful |-> successful,
         total_applications |-> total,
         failed |-> total - successful - already - skipped]

\* the {"error": ...} dict of execute_automation_pipeline
ErrorDict(msg) == [error |-> msg]

\* outcome lists _create_stats can be handed on its own
ResultKinds(n) ==
    { ApplicationResult(n, TRUE, FALSE, ""), ApplicationResult(n, FALSE, TRUE, ""),
      ApplicationResult(n, FALSE, FALSE, "") }

ResultLists(n) ==
    UNION { { rs \in [1 .. m -> UNION {ResultKinds(i) : i \in 1 .. m}] :
                \A i \in 1 .. m : rs[i].vacancy_name = i } : m \in 0 .. n }

\* ============================================================= state
VARIABLES
    max_applications,    \* settings.application.max_applications
    api_key_set,         \* bool(settings.gemini.api_key)
    pause_min,           \* settings.application.pause_min, in seconds
    pause_max,           \* settings.application.pause_max, in seconds
    cookies_file,        \* session_data/hh_cookies.json
    now,                 \* time.time(), in days
    driver,              \* BrowserService.driver (with wait, auth_handler, applicator)
    is_authenticated,    \* BrowserService._is_authenticated
    call,                \* the orchestrator method invoked last
    pc,                  \* where that call stands ("idle": no call is running,
                         \* "done": the call has returned or raised)
    use_ai,              \* execute_automation_pipeline's argument
    vacancies,           \* the local `vacancies` of the running call
    idx,                 \* position of the for loop of the running stage
    ai_suitable,         \* _ai_filter_vacancies' local list
    application_results, \* _apply_to_vacancies' local list
    successful_count,    \* _apply_to_vacancies' local
    processed_count,     \* _apply_to_vacancies' local
    ret,                 \* what the call returned or raised
    found,               \* history: what search_vacancies returned in this call
    init_ok,             \* history: what _initialize_browser_and_auth returned
    ai_rejected,         \* history: names should_apply turned down in this call
    faulted,             \* history: names whose iteration ended in the except branch
    pauses,              \* history: add_random_pause calls of this call
    close_ran,           \* history: BrowserService.close ran in this call
    interrupted,         \* history: where a KeyboardInterrupt hit this call
    scoring,             \* history: the last should_apply call of this call
    trace,               \* history: the calls this call made on its services,
                         \* in order, each with its argument or result
    applicator,          \* the frame of a VacancyApplicator.apply_to_vacancy call
    auth,                \* the frame of an AuthenticationHandler
                         \* .authenticate_interactive call
    pacing,              \* the last BrowserService.add_random_pause call
    analysis,            \* what the GeminiAIService.analyze_vacancy_match calls
                         \* made so far returned, in order
    browser_service      \* a BrowserService object driven by its caller, call
                         \* by call

\* the orchestrator, its settings and its browser service
orchestratorVars ==
    <<max_applications, api_key_set, pause_min, pause_max, cookies_file, now, driver, is_authenticated, call, pc,
      use_ai, vacancies, idx, ai_suitable, application_results, successful_count,
      processed_count, ret, found, init_ok, ai_rejected, faulted, pauses, close_ran,
      interrupted, trace, scoring>>

\* the service calls that are followed step by step on their own
serviceVars == <<applicator, auth, pacing, analysis, browser_service>>

vars == <<orchestratorVars, serviceVars>>

settingsVars == <<max_applications, api_key_set, pause_min, pause_max>>
storeVars == <<cookies_file, now>>
browserVars == <<driver, is_authenticated>>
loopVars == <<application_results, successful_count, processed_count, faulted, pauses>>

NoRet == [kind |-> "none", val |-> <<>>]
Returned(v) == [kind |-> "returned", val |-> v]
Raised(e) == [kind |-> "raised", val |-> e]

\* _check_success_message has not looked at the page
NoObservation ==
    [text |-> FALSE, element |-> FALSE, url |-> FALSE, overlay |-> FALSE,
     fault |-> FALSE, surface |-> FALSE]

\* no apply_to_vacancy call is running.  after_submit: the page
\* _check_success_message looked at; checks: the number of its calls
ApplicatorIdle ==
    [name |-> 0, pc |-> "idle", text |-> [read |-> FALSE, phrases |-> {}], sel |-> 1,
     button |-> 0, modal |-> 0, form |-> 0, submit_result |-> "none", out |-> NoRet,
     apply_clicks |-> 0, submit_clicks |-> 0, elapsed |-> 0, probed |-> <<>>,
     after_submit |-> NoObservation, checks |-> 0]

\* an entry of trace
Event(op, arg) == [op |-> op, arg |-> arg]

\* the arguments of the calls of op in a trace, in order
ArgsOf(tr, op) ==
    LET calls == SelectSeq(tr, LAMBDA e : e.op = op)
    IN  [i \in DOMAIN calls |-> calls[i].arg]

\* no add_random_pause call was made.  slept: the seconds the call slept;
\* fell_back: the pause was the one of the except branch; lo, hi: pause_min
\* and pause_max when the call was made.
NoPause == [ran |-> FALSE, slept |-> 0, fell_back |-> FALSE, lo |-> 0, hi |-> 0]

\* no should_apply call was made.  vacancy: the candidate of the call;
\* response: the kind of Gemini's answer; score: the score the call decided
\* on; retained: what it returned; stored: the call assigned
\* vacancy.ai_match_score and vacancy.ai_match_reasons; ai_match_score,
\* ai_match_reasons: what it assigned (ai_match_reasons is [] on a vacancy
\* nothing was assigned to).
NoScoring ==
    [score |-> 0, vacancy |-> Vacancy(0, CHOOSE k \in VacancyKinds : TRUE),
     ran |-> FALSE, response |-> "none", retained |-> FALSE,
     stored |-> FALSE, ai_match_score |-> 0, ai_match_reasons |-> <<>>]

\* ------------------------------------------------- the session file
\* _is_session_valid's max_age, 7 * 24 * 3600 seconds, in days
MaxAgeDays == 7

\* time.time() when the program starts, in days since the epoch
NowStart == 20000

\* the default of session_data.get("timestamp", 0)
DefaultTimestamp == 0

\* The content of session_data/hh_cookies.json.  kind: "absent" (no file),
\* "unparseable" (json.load raises: any text that is not JSON, an empty or
\* truncated file), "list" (JSON, but not an object), "object".  For an
\* object, cookies is "missing" (no "cookies" key), "not_iterable" (a number
\* or null), "malformed" (entries add_cookie rejects: no name or value, a
\* string in place of the list) or "entries" (a list of cookie dicts);
\* ts_kind is "missing" (no "timestamp" key), "text" (a string) or "number",
\* and timestamp its value, in days since the epoch.
StoredFile(kind, cookies, ts_kind, timestamp) ==
    [kind |-> kind, cookies |-> cookies, ts_kind |-> ts_kind, timestamp |-> timestamp]

AbsentFile == StoredFile("absent", "none", "none", 0)
UnparseableFile == StoredFile("unparseable", "none", "none", 0)
ListFile == StoredFile("list", "none", "none", 0)

\* what save_session's json.dump writes in full (lines 41-48)
SessionRecord(t) == StoredFile("object", "entries", "number", t)

\* a file with everything load_session reads from it: a cookie list and a
\* numeric timestamp
IsCompleteRecord(file) ==
    file.kind = "object" /\ file.cookies = "entries" /\ file.ts_kind = "number"

\* the timestamps of the files earlier runs left: older than, exactly at and
\* younger than max_age, and later than the clock
InitialTimestamps ==
    {NowStart - MaxAgeDays - 1, NowStart - MaxAgeDays, NowStart - MaxAgeDays + 1,
     NowStart, NowStart + 1}

\* every content the file can have
StoredFiles ==
    {AbsentFile, UnparseableFile, ListFile}
        \cup {StoredFile("object", c, "number", t) :
                 c \in {"missing", "not_iterable", "malformed", "entries"},
                 t \in InitialTimestamps}
        \cup {StoredFile("object", c, k, 0) :
                 c \in {"missing", "not_iterable", "malformed", "entries"},
                 k \in {"missing", "text"}}

\* the files of a program that ran before and wrote its file in full: none,
\* a record of today, a record of 8 days ago
WrittenFiles ==
    {AbsentFile, SessionRecord(NowStart), SessionRecord(NowStart - MaxAgeDays - 1)}

\* no authenticate_interactive call is running.  loaded: what load_session
\* returned ("unset" before it ran); applied: cookies were added to the
\* browser; load_file, load_time: the file and the clock load_session saw;
\* start_file: the file when the call began; login_opened: the call went to
\* the login page; probed_loaded: what the check of the loaded session came
\* to ("unset" before it ran); cleared: what clear_session did ("unset"
\* when it was not called); entered: what the check after input() came to;
\* saved: what save_session returned; save_time: the clock when it ran.
AuthIdle ==
    [pc |-> "idle", out |-> NoRet, loaded |-> "unset", applied |-> FALSE,
     load_file |-> AbsentFile, load_time |-> 0, start_file |-> AbsentFile,
     login_opened |-> FALSE, probed_loaded |-> "unset", cleared |-> "unset",
     entered |-> "unset", saved |-> "unset", save_time |-> 0]

\* AutomationOrchestrator.__init__: a fresh BrowserService, no AI service;
\* the settings singleton holds the defaults; the session file is whatever
\* earlier runs of the program left (one of files).
\* BrowserService.__init__ (lines 490-495), with the history of the calls
\* made on the object: launched counts the Chrome instances started;
\* authed_on is the driver of the handler whose authenticate_interactive
\* returned True last; initialized and authenticated tell that initialize
\* and authenticate_interactive returned True since the object was made or
\* closed; op, ready_at_call, acted and out describe the last call: its
\* name, what is_ready() was when it began, whether it reached the browser,
\* and its return value.
NewBrowserService ==
    [driver |-> None, is_authenticated |-> FALSE, applicator |-> None, out |-> NoRet,
     op |-> "none", auth_handler |-> None, launched |-> 0, authed_on |-> None,
     initialized |-> FALSE, authenticated |-> FALSE, ready_at_call |-> FALSE, acted |-> FALSE]

InitWith(files) ==
    /\ max_applications = DEFAULT_MAX_APPLICATIONS
    /\ api_key_set \in BOOLEAN
    /\ pause_min = DEFAULT_PAUSE_MIN
    /\ pause_max = DEFAULT_PAUSE_MAX
    /\ cookies_file \in files
    /\ now = NowStart
    /\ driver = None
    /\ is_authenticated = FALSE
    /\ call = "none"
    /\ pc = "idle"
    /\ use_ai = FALSE
    /\ vacancies = <<>>
    /\ idx = 1
    /\ ai_suitable = <<>>
    /\ application_results = <<>>
    /\ successful_count = 0
    /\ processed_count = 0
    /\ ret = NoRet
    /\ found = <<>>
    /\ init_ok = "unset"
    /\ ai_rejected = {}
    /\ faulted = {}
    /\ pauses = 0
    /\ close_ran = FALSE
    /\ interrupted = "no"
    /\ trace = <<>>
    /\ scoring = NoScoring
    /\ applicator = ApplicatorIdle
    /\ auth = AuthIdle
    /\ pacing = NoPause
    /\ analysis = <<>>
    /\ browser_service = NewBrowserService

Init == InitWith(WrittenFiles)

\* the locals and history of a call that starts
FreshCall(name, stage, ai, vs) ==
    /\ call' = name
    /\ pc' = stage
    /\ use_ai' = ai
    /\ vacancies' = vs
    /\ idx' = 1
    /\ ai_suitable' = <<>>
    /\ application_results' = <<>>
    /\ successful_count' = 0
    /\ processed_count' = 0
    /\ ret' = NoRet
    /\ found' = <<>>
    /\ init_ok' = "unset"
    /\ ai_rejected' = {}
    /\ faulted' = {}
    /\ pauses' = 0
    /\ close_ran' = FALSE
    /\ interrupted' = "no"
    /\ trace' = <<>>
    /\ scoring' = NoScoring

\* settings.application.max_applications is assigned (a plain attribute of the
\* settings singleton, written as in CLIInterface.run_application)
SetMaxApplications(n) ==
    /\ pc = "idle"
    /\ call = "none"
    /\ max_applications' = n
    /\ UNCHANGED <<serviceVars, trace, scoring, api_key_set, pause_min, pause_max, storeVars, browserVars, call, pc, use_ai, vacancies,
                   idx, ai_suitable, loopVars, ret, found, init_ok, ai_rejected, close_ran,
                   interrupted>>

\* execute_automation_pipeline(keywords, use_ai) is invoked
StartPipeline(ai) ==
    /\ pc = "idle"
    /\ FreshCall("pipeline", "search", ai, <<>>)
    /\ UNCHANGED <<serviceVars, settingsVars, storeVars, browserVars>>

\* _ai_filter_vacancies(vacancies) is invoked on its own
StartAiFilter(vs) ==
    /\ pc = "idle"
    /\ FreshCall("ai_filter", "ai", FALSE, vs)
    /\ UNCHANGED <<serviceVars, settingsVars, storeVars, browserVars>>

\* _initialize_browser_and_auth() is invoked on its own
StartInit ==
    /\ pc = "idle"
    /\ FreshCall("init", "init", FALSE, <<>>)
    /\ UNCHANGED <<serviceVars, settingsVars, storeVars, browserVars>>

\* _apply_to_vacancies(vacancies) is invoked on its own
StartLoop(vs) ==
    /\ pc = "idle"
    /\ FreshCall("loop", "loop", FALSE, vs)
    /\ UNCHANGED <<serviceVars, settingsVars, storeVars, browserVars>>

\* _create_stats(application_results) is invoked on its own
StartStats(rs) ==
    /\ pc = "idle"
    /\ call' = "stats"
    /\ pc' = "stats"
    /\ application_results' = rs
    /\ use_ai' = FALSE
    /\ vacancies' = <<>>
    /\ idx' = 1
    /\ ai_suitable' = <<>>
    /\ successful_count' = 0
    /\ processed_count' = 0
    /\ ret' = NoRet
    /\ found' = <<>>
    /\ init_ok' = "unset"
    /\ ai_rejected' = {}
    /\ faulted' = {}
    /\ pauses' = 0
    /\ close_ran' = FALSE
    /\ interrupted' = "no"
    /\ trace' = <<>>
    /\ scoring' = NoScoring
    /\ UNCHANGED <<serviceVars, settingsVars, storeVars, browserVars>>

\* ----------------------------------------------------------- stages
\* mutant: the pipeline without the `if not vacancies` check of line 35
SearchStageNoCheck(fs) ==
    /\ pc = "search"
    /\ found' = fs
    /\ vacancies' = SearchAndFilter(fs)
    /\ ret' = ret
    /\ pc' = IF use_ai /\ api_key_set THEN "ai" ELSE "init"
    /\ UNCHANGED <<serviceVars, trace, scoring, settingsVars, storeVars, browserVars, call, use_ai, idx,
                   ai_suitable, loopVars, init_ok, ai_rejected, close_ran, interrupted>>

\* Stage 1 of the pipeline and the checks at lines 35-43 that follow it:
\* _search_and_filter_vacancies(keywords); an empty list returns the error;
\* otherwise the AI filter runs when use_ai and the service is available,
\* and browser initialisation when not.
SearchStage(fs) ==
    /\ pc = "search"
    /\ found' = fs
    /\ LET vs == SearchAndFilter(fs)
       IN  /\ vacancies' = vs
           /\ IF vs = <<>>
              THEN /\ ret' = Returned(ErrorDict("no_suitable_vacancies"))
                   /\ pc' = "cleanup"
              ELSE /\ ret' = ret
                   /\ pc' = IF use_ai /\ api_key_set THEN "ai" ELSE "init"
    /\ UNCHANGED <<serviceVars, trace, scoring, settingsVars, storeVars, browserVars, call, use_ai, idx,
                   ai_suitable, loopVars, init_ok, ai_rejected, close_ran, interrupted>>

\* One iteration of the for loop of _ai_filter_vacancies: should_apply
\* decides whether the vacancy is appended to ai_suitable.
AiStep(resp) ==
    /\ pc = "ai"
    /\ idx <= Len(vacancies)
    /\ LET v == vacancies[idx]
       IN  IF ShouldApply(v, api_key_set, resp)
           THEN /\ ai_suitable' = Append(ai_suitable, v)
                /\ ai_rejected' = ai_rejected
           ELSE /\ ai_suitable' = ai_suitable
                /\ ai_rejected' = ai_rejected \cup {v.name}
    /\ scoring' = [score |-> ScoreOf(vacancies[idx], api_key_set, resp),
                    vacancy |-> vacancies[idx], ran |-> TRUE, response |-> resp.kind,
                    retained |-> ShouldApply(vacancies[idx], api_key_set, resp),
                    stored |-> StoresAnalysis(api_key_set),
                    ai_match_score |->
                        IF StoresAnalysis(api_key_set)
                        THEN Analyze(vacancies[idx], resp) ELSE 0,
                    ai_match_reasons |->
                        IF StoresAnalysis(api_key_set)
                        THEN AnalyzeReasons(vacancies[idx], resp) ELSE <<>>]
    /\ idx' = idx + 1
    /\ UNCHANGED <<serviceVars, trace, settingsVars, storeVars, browserVars, call, pc, use_ai, vacancies,
                   loopVars, ret, found, init_ok, close_ran, interrupted>>

\* _ai_filter_vacancies returns ai_suitable; in the pipeline (lines 39-43) an
\* empty list returns the error, and browser initialisation follows otherwise.
AiReturn ==
    /\ pc = "ai"
    /\ idx > Len(vacancies)
    /\ IF call = "pipeline"
       THEN /\ vacancies' = ai_suitable
            /\ IF ai_suitable = <<>>
               THEN /\ ret' = Returned(ErrorDict("no_vacancies_after_ai"))
                    /\ pc' = "cleanup"
               ELSE /\ ret' = ret
                    /\ pc' = "init"
       ELSE /\ vacancies' = vacancies
            /\ ret' = Returned(ai_suitable)
            /\ pc' = "done"
    /\ UNCHANGED <<serviceVars, trace, scoring, settingsVars, storeVars, browserVars, call, use_ai, idx,
                   ai_suitable, loopVars, found, init_ok, ai_rejected, close_ran, interrupted>>

\* a session whose age equals max_age passes
IsSessionValidInclusive(file, t) ==
    /\ file.kind = "object"
    /\ CASE file.ts_kind = "number" -> t - file.timestamp <= MaxAgeDays
         [] file.ts_kind = "missing" -> t - DefaultTimestamp <= MaxAgeDays
         [] OTHER -> FALSE

\* SessionManager._is_session_valid at time t: the age is taken from the
\* "timestamp" key, 0 without one; a list has no .get and a string cannot
\* be subtracted: both raise, and the except returns False
IsSessionValid(file, t) ==
    /\ file.kind = "object"
    /\ CASE file.ts_kind = "number" -> t - file.timestamp < MaxAgeDays
         [] file.ts_kind = "missing" -> t - DefaultTimestamp < MaxAgeDays
         [] OTHER -> FALSE

\* SessionManager.load_session at time t; get_ok: driver.get(HH_SITE_URL)
\* does not raise.  ok is what it returns, applied whether a cookie was
\* added to the browser.  False without a file, when json.load raises, for
\* an invalid session, when the get raises, when session_data["cookies"]
\* raises KeyError or cannot be iterated; an add_cookie that raises is only
\* logged, so a file whose entries are all rejected still returns True.
LoadSession(file, t, get_ok) ==
    IF \/ file.kind \in {"absent", "unparseable"}
       \/ ~IsSessionValid(file, t)
       \/ ~get_ok
       \/ file.cookies \in {"missing", "not_iterable"}
    THEN [applied |-> FALSE, ok |-> FALSE]
    ELSE [applied |-> file.cookies = "entries", ok |-> TRUE]

\* the file save_session leaves at time t: the record ("valid"), a
\* truncated file when the write fails after open(..., 'w') ("corrupt"), the
\* old file when it fails before the open ("unchanged")
SaveSession(saved, file, t) ==
    CASE saved = "valid" -> SessionRecord(t)
      [] saved = "corrupt" -> UnparseableFile
      [] OTHER -> file

\* what _initialize_browser_and_auth's caller does with its result: the
\* pipeline (lines 43-47) returns the error or enters the submission loop
InitResult(ok) ==
    /\ init_ok' = IF ok THEN "yes" ELSE "no"
    /\ IF call = "pipeline"
       THEN IF ok
            THEN /\ ret' = ret
                 /\ pc' = "loop"
            ELSE /\ ret' = Returned(ErrorDict("browser_init_or_auth_failed"))
                 /\ pc' = "cleanup"
       ELSE /\ ret' = Returned(<<ok>>)
            /\ pc' = "done"

\* _initialize_browser_and_auth up to the login prompt: BrowserService
\* .initialize (started: Chrome started), then authenticate_interactive:
\* a loaded session whose probe (probe_ok) succeeds authenticates; one whose
\* probe fails is cleared; without a session the login page is opened and
\* input() blocks.
InitStage(started, get_ok, probe_ok) ==
    /\ pc = "init"
    /\ IF ~started
       THEN /\ InitResult(FALSE)
            /\ UNCHANGED <<cookies_file, browserVars>>
       ELSE /\ driver' = "chrome"
            /\ IF LoadSession(cookies_file, now, get_ok).ok /\ probe_ok
               THEN /\ is_authenticated' = TRUE
                    /\ cookies_file' = cookies_file
                    /\ InitResult(TRUE)
               ELSE /\ is_authenticated' = is_authenticated
                    /\ cookies_file' =
                          IF LoadSession(cookies_file, now, get_ok).ok
                          THEN AbsentFile ELSE cookies_file
                    /\ ret' = ret
                    /\ init_ok' = init_ok
                    /\ pc' = "login_wait"
    /\ idx' = 1
    /\ UNCHANGED <<serviceVars, trace, scoring, settingsVars, now, call, use_ai, vacancies, ai_suitable, loopVars, found,
                   ai_rejected, close_ran, interrupted>>

\* The user pressed Enter at input(): _check_authentication (probe_ok); on
\* success save_session writes the file (saved: the file it leaves: "valid",
\* "corrupt" for a write that failed after open(..., 'w'), or the old file
\* for a failure before it) and the call returns True; on failure False.
LoginEnter(probe_ok, saved) ==
    /\ pc = "login_wait"
    /\ IF probe_ok
       THEN /\ cookies_file' = SaveSession(saved, cookies_file, now)
            /\ is_authenticated' = TRUE
            /\ InitResult(TRUE)
       ELSE /\ UNCHANGED <<cookies_file, is_authenticated>>
            /\ InitResult(FALSE)
    /\ UNCHANGED <<serviceVars, trace, scoring, settingsVars, now, driver, call, use_ai, vacancies, idx, ai_suitable,
                   loopVars, found, ai_rejected, close_ran, interrupted>>

\* ------------------------------------------------- the submission loop
\* the loop goes on: a vacancy is left and the cap is not reached (line 145)
LoopContinues == idx <= Len(vacancies) /\ successful_count < max_applications

\* mutant: the loop takes the same candidate again
SameCandidateAgain(i) == i

\* the for statement of line 144 takes the next element of the list
NextCandidate(i) == i + 1

\* mutant: the except branch puts its result at the head of the list
ExceptAppendFirst(rs, v, msg) == <<ErrorResult(v, msg)>> \o rs

\* mutant: the except branch logs the error and appends nothing
ExceptAppendDropped(rs, v, msg) == rs

\* the except branch of the loop (lines 176-184)
ExceptAppend(rs, v, msg) == Append(rs, ErrorResult(v, msg))

\* One iteration of the for loop of _apply_to_vacancies (lines 144-184), a
\* KeyboardInterrupt aside.  A call of apply_to_vacancy that does not bind
\* raises TypeError, and so does _log_application_result's read of a missing
\* attribute: both land in the except branch, which appends a result.
LoopIteration ==
    /\ pc = "loop"
    /\ LoopContinues
    /\ LET v == vacancies[idx]
           processed == processed_count + 1
       IN  /\ processed_count' = processed
           /\ IF ~ApplyCallBinds
              THEN /\ application_results' = ExceptAppend(application_results, v, "TypeError")
                   /\ faulted' = faulted \cup {v.name}
                   /\ UNCHANGED <<successful_count, pauses>>
              ELSE LET result == BrowserApplyToVacancy(v, driver, is_authenticated)
                       appended == Append(application_results, result)
                   IN  IF LogResultRaises(result)
                       THEN /\ application_results' = ExceptAppend(appended, v, "AttributeError")
                            /\ faulted' = faulted \cup {v.name}
                            /\ UNCHANGED <<successful_count, pauses>>
                       ELSE LET successful ==
                                    IF result.success THEN successful_count + 1
                                    ELSE successful_count
                            IN  /\ application_results' = appended
                                /\ successful_count' = successful
                                /\ pauses' =
                                      IF processed < Len(vacancies)
                                         /\ successful < max_applications
                                      THEN pauses + 1 ELSE pauses
                                /\ faulted' = faulted
    /\ trace' = Append(trace, Event("apply_to_vacancy", vacancies[idx].name))
    /\ scoring' = scoring
    /\ idx' = NextCandidate(idx)
    /\ UNCHANGED <<serviceVars, settingsVars, storeVars, browserVars, call, pc, use_ai, vacancies,
                   ai_suitable, ret, found, init_ok, ai_rejected, close_ran, interrupted>>

\* The loop ends (list exhausted, or the break at line 149) and
\* _apply_to_vacancies returns application_results; the pipeline goes on to
\* _create_stats (line 49).
LoopExit ==
    /\ pc = "loop"
    /\ ~LoopContinues
    /\ IF call = "pipeline"
       THEN /\ pc' = "stats"
            /\ ret' = ret
       ELSE /\ pc' = "done"
            /\ ret' = Returned(application_results)
    /\ UNCHANGED <<serviceVars, trace, scoring, settingsVars, storeVars, browserVars, call, use_ai, vacancies, idx,
                   ai_suitable, loopVars, found, init_ok, ai_rejected, close_ran, interrupted>>

\* _create_stats(application_results): the dict, or the AttributeError its
\* read of r.skipped raises, which the pipeline's `except Exception`
\* (lines 54-56) turns into {"error": str(e)}.
StatsStage ==
    /\ pc = "stats"
    /\ IF StatsRaises(application_results)
       THEN IF call = "pipeline"
            THEN /\ ret' = Returned(ErrorDict("AttributeError"))
                 /\ pc' = "cleanup"
            ELSE /\ ret' = Raised("AttributeError")
                 /\ pc' = "done"
       ELSE /\ ret' = Returned(CreateStats(application_results))
            /\ pc' = IF call = "pipeline" THEN "cleanup" ELSE "done"
    /\ UNCHANGED <<serviceVars, trace, scoring, settingsVars, storeVars, browserVars, call, use_ai, vacancies, idx,
                   ai_suitable, loopVars, found, init_ok, ai_rejected, close_ran, interrupted>>

\* ------------------------------------------------------- interruption
\* what a KeyboardInterrupt does to the running call: no `except Exception`
\* catches it; execute_automation_pipeline (lines 51-53) returns the error
\* dict and goes to its finally block, any other method lets it out.
KeyboardInterrupt(where) ==
    /\ interrupted' = where
    /\ IF call = "pipeline"
       THEN /\ ret' = Returned(ErrorDict("stopped_by_user"))
            /\ pc' = "cleanup"
       ELSE /\ ret' = Raised("KeyboardInterrupt")
            /\ pc' = "done"

\* Ctrl-C while a stage is waiting or between two steps of it: during the
\* search, between two vacancies of a loop, at the blocking input() of the
\* login, before _create_stats.
Interrupt ==
    /\ pc \in {"search", "ai", "init", "login_wait", "loop", "stats"}
    /\ KeyboardInterrupt(pc)
    /\ UNCHANGED <<serviceVars, trace, scoring, settingsVars, storeVars, browserVars, call, use_ai, vacancies, idx,
                   ai_suitable, loopVars, found, init_ok, ai_rejected, close_ran>>

\* Ctrl-C while a vacancy is being processed (lines 151-184, before a result
\* is appended): processed_count is already incremented, nothing is
\* appended, and the KeyboardInterrupt leaves the loop.
InterruptDuringCandidate ==
    /\ pc = "loop"
    /\ LoopContinues
    /\ processed_count' = processed_count + 1
    /\ KeyboardInterrupt("mid_candidate")
    /\ UNCHANGED <<serviceVars, trace, scoring, settingsVars, storeVars, browserVars, call, use_ai, vacancies, idx,
                   ai_suitable, application_results, successful_count, faulted, pauses,
                   found, init_ok, ai_rejected, close_ran>>

\* ------------------------------------------------------------ cleanup
\* mutant: close() without its finally block, after driver.quit() raised
BrowserCloseKeepsState ==
    /\ UNCHANGED browserVars
    /\ close_ran' = TRUE

\* BrowserService.close: quit the driver if there is one; the finally block
\* resets driver, wait, _is_authenticated, auth_handler and applicator
BrowserClose ==
    /\ driver' = None
    /\ is_authenticated' = FALSE
    /\ close_ran' = TRUE

\* the finally block of execute_automation_pipeline: _cleanup(), then the
\* pending return value is handed to the caller
Cleanup ==
    /\ pc = "cleanup"
    /\ BrowserClose
    /\ pc' = "done"
    /\ UNCHANGED <<serviceVars, trace, scoring, settingsVars, storeVars, call, use_ai, vacancies, idx, ai_suitable,
                   loopVars, ret, found, init_ok, ai_rejected, interrupted>>

\* The caller takes the result of the finished call; its locals are gone.
CallEnds ==
    /\ pc = "done"
    /\ FreshCall("over", "idle", FALSE, <<>>)
    /\ UNCHANGED <<serviceVars, settingsVars, storeVars, browserVars>>

\* ------------------------------------------------------ specification
Next ==
    \/ \E n \in CapValues : SetMaxApplications(n)
    \/ \E ai \in BOOLEAN : StartPipeline(ai)
    \/ \E vs \in VacancyLists(MaxFound) : StartAiFilter(vs)
    \/ StartInit
    \/ \E vs \in VacancyLists(MaxCands) : StartLoop(vs)
    \/ \E rs \in ResultLists(MaxResults) : StartStats(rs)
    \/ \E fs \in VacancyLists(MaxFound) : SearchStage(fs)
    \/ \E resp \in AiResponses : AiStep(resp)
    \/ AiReturn
    \/ \E started, get_ok, probe_ok \in BOOLEAN : InitStage(started, get_ok, probe_ok)
    \/ \E probe_ok \in BOOLEAN, saved \in {"valid", "corrupt", "unchanged"} :
          LoginEnter(probe_ok, saved)
    \/ LoopIteration
    \/ LoopExit
    \/ StatsStage
    \/ Interrupt
    \/ InterruptDuringCandidate
    \/ Cleanup
    \/ CallEnds

Spec == Init /\ [][Next]_vars

\* ==================================== VacancyApplicator, step by step
\* lengths of the selector lists and the bounded waits, in seconds
NumApplySelectors == 6
NumModalSelectors == 7
NumFormSelectors == 3
NumSubmitSelectors == 8
ModalWaitSeconds == 5
SubmitWaitSeconds == 3
\* time.sleep after driver.get, after the click on the apply button, before
\* the submit selectors are probed, after the click on a submit button
SleepAfterGet == 3
SleepAfterClick == 2
SleepBeforeSubmit == 1
SleepAfterSubmit == 3

\* what the page shows after a submit button was clicked, as
\* _check_success_message reads it: a displayed success element, a success
\* phrase in page_source, a success word in current_url, the element
\* [data-qa="modal-overlay"]; fault: page_source or current_url raises.
\* surface: the modal that _submit_application_form found is still shown
\* (the method does not read it).
AfterSubmit ==
    [text : BOOLEAN, element : BOOLEAN, url : BOOLEAN, overlay : BOOLEAN,
     fault : BOOLEAN, surface : BOOLEAN]

\* the first modal selector is [data-qa="modal-overlay"], the element
\* _check_success_message looks for
OverlaySelector == 1

\* the pages that can follow a modal found by selector `modal`: a modal found
\* as [data-qa="modal-overlay"] is still shown exactly when that element is
\* still there
PagesAfter(modal) ==
    {obs \in AfterSubmit : modal = OverlaySelector => obs.overlay = obs.surface}

\* two of them, one for each answer of _check_success_message: the modal
\* stays, and a success element is shown or nothing confirms
SomePagesAfter(modal) ==
    {obs \in PagesAfter(modal) :
        ~obs.text /\ ~obs.url /\ ~obs.fault /\ obs.overlay /\ obs.surface}

\* VacancyApplicator._check_success_message
CheckSuccessMessage(obs) ==
    \/ obs.element
    \/ ~obs.fault /\ (obs.text \/ obs.url \/ ~obs.overlay)

\* apply_to_vacancy returns result
ApplicatorReturns(result) ==
    applicator' = [applicator EXCEPT !.pc = "done", !.out = Returned(result)]

\* mutant: apply_to_vacancy without its try/except: the exception leaves it
ApplicatorExceptPropagates(msg) ==
    applicator' = [applicator EXCEPT !.pc = "done", !.out = Raised(msg)]

\* the `except Exception` of apply_to_vacancy (lines 312-319): a result with
\* success = False and the exception's text
ApplicatorExcept(msg) ==
    ApplicatorReturns(ApplicationResult(applicator.name, FALSE, FALSE, msg))

\* _submit_application_form returns r: apply_to_vacancy goes on at line 289
SubmitFormReturns(r, seconds) ==
    applicator' = [applicator EXCEPT !.pc = "build", !.submit_result = r,
                                     !.elapsed = @ + seconds]

\* apply_to_vacancy(vacancy_url, vacancy_name) is invoked
ApplicatorStart(name) ==
    /\ applicator.pc = "idle"
    /\ applicator' = [ApplicatorIdle EXCEPT !.pc = "get", !.name = name]
    /\ UNCHANGED <<orchestratorVars, auth, pacing, analysis, browser_service>>

\* driver.get(vacancy_url) and time.sleep(3)
DriverGet(ok) ==
    /\ applicator.pc = "get"
    /\ IF ok
       THEN applicator' = [applicator EXCEPT !.pc = "find_button", !.sel = 1,
                                             !.elapsed = @ + SleepAfterGet]
       ELSE ApplicatorExcept("WebDriverException")
    /\ UNCHANGED <<orchestratorVars, auth, pacing, analysis, browser_service>>

\* mutant: _find_apply_button keeps the last selector that matches
ProbeApplySelectorLastWins(resp) ==
    /\ applicator.pc = "find_button"
    /\ LET probe == [resp |-> resp, selector |-> applicator.sel]
           probed == [applicator EXCEPT !.probed = Append(@, probe),
                                        !.button = IF resp = "found" THEN applicator.sel
                                                   ELSE @]
       IN  IF applicator.sel < NumApplySelectors
           THEN applicator' = [probed EXCEPT !.sel = @ + 1]
           ELSE IF probed.button # 0
                THEN applicator' = [probed EXCEPT !.pc = "read_text"]
                ELSE applicator' =
                        [probed EXCEPT !.pc = "done",
                                       !.out = Returned(ApplicationResult(
                                                   applicator.name, FALSE, FALSE,
                                                   "button_not_found"))]
    /\ UNCHANGED <<orchestratorVars, auth, pacing, analysis, browser_service>>

\* _find_apply_button, one selector: find_element finds the button, raises
\* NoSuchElementException (the next selector is tried, None after the last
\* one: lines 264-270), or raises something else, which leaves the method.
\* probed: the probes that found an element or raised NoSuchElementException
ProbeApplySelector(resp) ==
    /\ applicator.pc = "find_button"
    /\ LET probe == [resp |-> resp, selector |-> applicator.sel]
           probed == [applicator EXCEPT !.probed = Append(@, probe)]
       IN  CASE resp = "found" ->
                  applicator' = [probed EXCEPT !.pc = "read_text", !.button = applicator.sel]
             [] resp = "no_such_element" ->
                  IF applicator.sel < NumApplySelectors
                  THEN applicator' = [probed EXCEPT !.sel = @ + 1]
                  ELSE applicator' =
                          [probed EXCEPT !.pc = "done",
                                         !.out = Returned(ApplicationResult(
                                                     applicator.name, FALSE, FALSE,
                                                     "button_not_found"))]
             [] OTHER -> ApplicatorExcept("WebDriverException")
    /\ UNCHANGED <<orchestratorVars, auth, pacing, analysis, browser_service>>

\* ALREADY_APPLIED_INDICATORS has six phrases
NumAlreadyAppliedIndicators == 6

\* the lower-cased text of an apply button, by the indicators (their
\* positions in the list) it contains: the fifth contains the first
ButtonTexts == {{}, {1}, {2, 4}, {1, 5}, {6}}

\* mutant: only the first indicator is looked for
IsAlreadyAppliedFirstOnly(phrases) == 1 \in phrases

\* VacancyApplicator._is_already_applied(button_text)
IsAlreadyAppliedText(phrases) ==
    \E i \in 1 .. NumAlreadyAppliedIndicators : i \in phrases

\* apply_button.text.lower() and _is_already_applied (lines 272-280); the
\* read of .text raises on an element that left the page
ReadButtonText(raises, phrases) ==
    /\ applicator.pc = "read_text"
    /\ IF raises
       THEN ApplicatorExcept("StaleElementReferenceException")
       ELSE LET read == [applicator EXCEPT !.text = [read |-> TRUE, phrases |-> phrases]]
            IN  IF IsAlreadyAppliedText(phrases)
                THEN applicator' =
                        [read EXCEPT !.pc = "done",
                                     !.out = Returned(ApplicationResult(
                                                 applicator.name, FALSE, TRUE,
                                                 "already_applied"))]
                ELSE applicator' = [read EXCEPT !.pc = "click"]
    /\ UNCHANGED <<orchestratorVars, auth, pacing, analysis, browser_service>>

\* the click on the apply button (line 282) and time.sleep(2);
\* _submit_application_form starts with its first modal selector
ClickApply(ok) ==
    /\ applicator.pc = "click"
    /\ IF ok
       THEN applicator' = [applicator EXCEPT !.pc = "modal", !.sel = 1,
                                             !.apply_clicks = @ + 1,
                                             !.elapsed = @ + SleepAfterClick]
       ELSE ApplicatorExcept("JavascriptException")
    /\ UNCHANGED <<orchestratorVars, auth, pacing, analysis, browser_service>>

\* one modal selector (lines 362-376): WebDriverWait(5) finds the modal, or
\* raises (TimeoutException or another error) and the next selector is
\* tried; SKIPPED after the last one.  elapsed counts the wait at its
\* timeout, the longest it can last.
WaitModal(is_found) ==
    /\ applicator.pc = "modal"
    /\ IF is_found
       THEN applicator' = [applicator EXCEPT !.pc = "form", !.sel = 1,
                                             !.modal = applicator.sel,
                                             !.elapsed = @ + ModalWaitSeconds]
       ELSE IF applicator.sel < NumModalSelectors
            THEN applicator' = [applicator EXCEPT !.sel = @ + 1,
                                                  !.elapsed = @ + ModalWaitSeconds]
            ELSE SubmitFormReturns("SKIPPED", ModalWaitSeconds)
    /\ UNCHANGED <<orchestratorVars, auth, pacing, analysis, browser_service>>

\* mutant: the submit buttons are looked for whether a form was found or not
FindFormOptional(is_found) ==
    /\ applicator.pc = "form"
    /\ IF is_found \/ applicator.sel = NumFormSelectors
       THEN applicator' = [applicator EXCEPT !.pc = "submit", !.sel = 1,
                                             !.form = IF is_found THEN applicator.sel ELSE 0,
                                             !.elapsed = @ + SleepBeforeSubmit]
       ELSE applicator' = [applicator EXCEPT !.sel = @ + 1]
    /\ UNCHANGED <<orchestratorVars, auth, pacing, analysis, browser_service>>

\* one form selector (lines 385-399): find_element finds the form, or raises
\* and the next selector is tried; SKIPPED after the last one
FindForm(is_found) ==
    /\ applicator.pc = "form"
    /\ IF is_found
       THEN applicator' = [applicator EXCEPT !.pc = "submit", !.sel = 1,
                                             !.form = applicator.sel,
                                             !.elapsed = @ + SleepBeforeSubmit]
       ELSE IF applicator.sel < NumFormSelectors
            THEN applicator' = [applicator EXCEPT !.sel = @ + 1]
            ELSE SubmitFormReturns("SKIPPED", 0)
    /\ UNCHANGED <<orchestratorVars, auth, pacing, analysis, browser_service>>

\* one submit selector (lines 401-418): WebDriverWait(3) times out, or finds
\* a clickable button that is clicked; a click that raises is caught by the
\* `except Exception: continue` and the next selector is tried; FAILED after
\* the last one
WaitSubmit(resp) ==
    /\ applicator.pc = "submit"
    /\ CASE resp = "clicked" ->
              applicator' = [applicator EXCEPT !.pc = "check", !.submit_clicks = @ + 1,
                                               !.elapsed = @ + SubmitWaitSeconds
                                                             + SleepAfterSubmit]
         [] resp = "click_raises" ->
              IF applicator.sel < NumSubmitSelectors
              THEN applicator' = [applicator EXCEPT !.sel = @ + 1, !.submit_clicks = @ + 1,
                                                    !.elapsed = @ + SubmitWaitSeconds]
              ELSE applicator' = [applicator EXCEPT !.pc = "build",
                                                    !.submit_result = "FAILED",
                                                    !.submit_clicks = @ + 1,
                                                    !.elapsed = @ + SubmitWaitSeconds]
         [] OTHER ->
              IF applicator.sel < NumSubmitSelectors
              THEN applicator' = [applicator EXCEPT !.sel = @ + 1,
                                                    !.elapsed = @ + SubmitWaitSeconds]
              ELSE SubmitFormReturns("FAILED", SubmitWaitSeconds)
    /\ UNCHANGED <<orchestratorVars, auth, pacing, analysis, browser_service>>

\* _check_success_message after the click (lines 410-413)
CheckSuccess(obs) ==
    /\ applicator.pc = "check"
    /\ obs \in PagesAfter(applicator.modal)
    /\ applicator' =
          [applicator EXCEPT !.pc = "build",
                             !.submit_result = IF CheckSuccessMessage(obs) THEN "SUCCESS"
                                               ELSE "FAILED",
                             !.after_submit = obs, !.checks = @ + 1]
    /\ UNCHANGED <<orchestratorVars, auth, pacing, analysis, browser_service>>

\* lines 289-310: the ApplicationResult for the SubmissionResult; the one
\* for SKIPPED passes the keyword `skipped`, which the dataclass does not
\* take: the TypeError is raised inside the try
BuildResult ==
    /\ applicator.pc = "build"
    /\ CASE applicator.submit_result = "SUCCESS" ->
              ApplicatorReturns(ApplicationResult(applicator.name, TRUE, FALSE, ""))
         [] applicator.submit_result = "SKIPPED" ->
              IF SkippedResultBinds
              THEN ApplicatorReturns(
                       [success |-> FALSE, already_applied |-> FALSE,
                        vacancy_id |-> "", vacancy_name |-> applicator.name,
                        error_message |-> "modal_not_found", skipped |-> TRUE])
              ELSE ApplicatorExcept("TypeError")
         [] OTHER ->
              ApplicatorReturns(
                  ApplicationResult(applicator.name, FALSE, FALSE, "submit_failed"))
    /\ UNCHANGED <<orchestratorVars, auth, pacing, analysis, browser_service>>

\* the caller has the result
ApplicatorEnds ==
    /\ applicator.pc = "done"
    /\ applicator' = ApplicatorIdle
    /\ UNCHANGED <<orchestratorVars, auth, pacing, analysis, browser_service>>

ApplicatorStep ==
    \/ \E ok \in BOOLEAN : DriverGet(ok)
    \/ \E resp \in {"found", "no_such_element", "error"} : ProbeApplySelector(resp)
    \/ \E raises \in BOOLEAN, phrases \in ButtonTexts : ReadButtonText(raises, phrases)
    \/ \E ok \in BOOLEAN : ClickApply(ok)
    \/ \E is_found \in BOOLEAN : WaitModal(is_found)
    \/ \E is_found \in BOOLEAN : FindForm(is_found)
    \/ \E resp \in {"clicked", "click_raises", "timeout"} : WaitSubmit(resp)
    \/ \E obs \in SomePagesAfter(applicator.modal) : CheckSuccess(obs)
    \/ BuildResult

ApplicatorNext ==
    \/ \E name \in 1 .. MaxNames : ApplicatorStart(name)
    \/ ApplicatorStep
    \/ ApplicatorEnds

\* apply_to_vacancy calls on a VacancyApplicator
ApplicatorSpec == Init /\ [][ApplicatorNext]_vars

\* every driver call and every bounded wait returns or raises
ApplicatorFairSpec == ApplicatorSpec /\ WF_vars(ApplicatorStep)

\* apply_to_vacancy calls on vacancy pages that have an apply button and a
\* form, with every page _check_success_message can meet after the click on
\* a submit button
ConfirmNext ==
    \/ \E name \in 1 .. MaxNames : ApplicatorStart(name)
    \/ DriverGet(TRUE)
    \/ ProbeApplySelector("found")
    \/ ReadButtonText(FALSE, {})
    \/ ClickApply(TRUE)
    \/ \E is_found \in BOOLEAN : WaitModal(is_found)
    \/ FindForm(TRUE)
    \/ \E resp \in {"clicked", "click_raises", "timeout"} : WaitSubmit(resp)
    \/ \E obs \in AfterSubmit : CheckSuccess(obs)
    \/ BuildResult
    \/ ApplicatorEnds

ConfirmSpec == Init /\ [][ConfirmNext]_vars

\* ============================ AuthenticationHandler, step by step
\* the orchestrator's variables an authenticate_interactive call leaves alone
callVars ==
    <<max_applications, api_key_set, pause_min, pause_max, driver, is_authenticated,
      call, pc, use_ai,
      vacancies, idx, ai_suitable, application_results, successful_count,
      processed_count, ret, found, init_ok, ai_rejected, faulted, pauses, close_ran,
      interrupted, trace, scoring>>

\* authenticate_interactive returns result
AuthReturns(result) == [auth EXCEPT !.pc = "done", !.out = Returned(result)]

\* a day passes
Tick ==
    /\ now < NowStart + MaxDays
    /\ now' = now + 1
    /\ UNCHANGED <<cookies_file, callVars, serviceVars>>

\* authenticate_interactive() is invoked
AuthStart ==
    /\ auth.pc = "idle"
    /\ auth' = [AuthIdle EXCEPT !.pc = "load", !.start_file = cookies_file]
    /\ UNCHANGED <<orchestratorVars, applicator, pacing, analysis, browser_service>>

\* self.session_manager.load_session() (line 171)
AuthLoadSession(get_ok) ==
    /\ auth.pc = "load"
    /\ LET r == LoadSession(cookies_file, now, get_ok)
       IN  auth' = [auth EXCEPT !.pc = IF r.ok THEN "probe" ELSE "open_login",
                                !.loaded = IF r.ok THEN "yes" ELSE "no",
                                !.applied = r.applied,
                                !.load_file = cookies_file,
                                !.load_time = now]
    /\ UNCHANGED <<orchestratorVars, applicator, pacing, analysis, browser_service>>

\* mutant: a loaded session that is not authenticated is left in the store
AuthProbeLoadedKeeps(resp, unlinked) ==
    /\ auth.pc = "probe"
    /\ auth' = IF resp = "not_authenticated"
               THEN [auth EXCEPT !.pc = "open_login", !.probed_loaded = resp]
               ELSE [AuthReturns(resp = "authenticated") EXCEPT !.probed_loaded = resp]
    /\ cookies_file' = cookies_file
    /\ UNCHANGED <<now, callVars, applicator, pacing, analysis, browser_service>>

\* a session was loaded (lines 172-182): driver.refresh(), which may raise
\* (the except of line 207 returns False), then _check_authentication: the
\* call returns True, or clear_session unlinks the file (unlinked: the
\* unlink did not raise) and the call goes on to the login
AuthProbeLoaded(resp, unlinked) ==
    /\ auth.pc = "probe"
    /\ CASE resp = "raises" ->
              /\ auth' = [AuthReturns(FALSE) EXCEPT !.probed_loaded = resp]
              /\ cookies_file' = cookies_file
         [] resp = "authenticated" ->
              /\ auth' = [AuthReturns(TRUE) EXCEPT !.probed_loaded = resp]
              /\ cookies_file' = cookies_file
         [] OTHER ->
              /\ auth' = [auth EXCEPT !.pc = "open_login", !.probed_loaded = resp,
                                      !.cleared = IF unlinked THEN "unlinked"
                                                  ELSE "unlink_raised"]
              /\ cookies_file' = IF unlinked THEN AbsentFile ELSE cookies_file
    /\ UNCHANGED <<now, callVars, applicator, pacing, analysis, browser_service>>

\* driver.get(LOGIN_URL) (line 190); input() then blocks
AuthOpenLogin(ok) ==
    /\ auth.pc = "open_login"
    /\ auth' = IF ok
               THEN [auth EXCEPT !.pc = "input", !.login_opened = TRUE]
               ELSE [AuthReturns(FALSE) EXCEPT !.login_opened = TRUE]
    /\ UNCHANGED <<orchestratorVars, applicator, pacing, analysis, browser_service>>

\* mutant: the session is saved, and the call returns True, whatever the
\* check after input() says
AuthEnterSavesAnyway(authenticated) ==
    /\ auth.pc = "input"
    /\ auth' = [auth EXCEPT !.pc = "save",
                            !.entered = IF authenticated THEN "authenticated"
                                        ELSE "not_authenticated"]
    /\ UNCHANGED <<orchestratorVars, applicator, pacing, analysis, browser_service>>

\* the user pressed Enter; _check_authentication (lines 192-205)
AuthEnter(authenticated) ==
    /\ auth.pc = "input"
    /\ auth' = IF authenticated
               THEN [auth EXCEPT !.pc = "save", !.entered = "authenticated"]
               ELSE [AuthReturns(FALSE) EXCEPT !.entered = "not_authenticated"]
    /\ UNCHANGED <<orchestratorVars, applicator, pacing, analysis, browser_service>>

\* save_session up to open(self.cookies_file, 'w') (lines 39-47): the
\* cookies and the user agent are read and the file is opened for writing,
\* which empties it; when one of these raises the file stays as it was,
\* save_session returns False and authenticate_interactive True
SaveOpen(ok) ==
    /\ auth.pc = "save"
    /\ IF ok
       THEN /\ auth' = [auth EXCEPT !.pc = "save_dump"]
            /\ cookies_file' = UnparseableFile
       ELSE /\ auth' = [AuthReturns(TRUE) EXCEPT !.saved = "failed", !.save_time = now]
            /\ cookies_file' = cookies_file
    /\ UNCHANGED <<now, callVars, applicator, pacing, analysis, browser_service>>

\* json.dump into the opened file (line 48): the record is written in
\* full, or the write raises part-way (the text written so far stays in the
\* file); authenticate_interactive returns True either way
SaveDump(ok) ==
    /\ auth.pc = "save_dump"
    /\ auth' = [AuthReturns(TRUE) EXCEPT !.saved = IF ok THEN "yes" ELSE "failed",
                                         !.save_time = now]
    /\ cookies_file' = IF ok THEN SessionRecord(now) ELSE UnparseableFile
    /\ UNCHANGED <<now, callVars, applicator, pacing, analysis, browser_service>>

\* the caller has the result
AuthEnds ==
    /\ auth.pc = "done"
    /\ auth' = AuthIdle
    /\ UNCHANGED <<orchestratorVars, applicator, pacing, analysis, browser_service>>

SessionNext ==
    \/ Tick
    \/ AuthStart
    \/ \E get_ok \in BOOLEAN : AuthLoadSession(get_ok)
    \/ \E resp \in {"authenticated", "not_authenticated", "raises"}, unlinked \in BOOLEAN :
          AuthProbeLoaded(resp, unlinked)
    \/ \E ok \in BOOLEAN : AuthOpenLogin(ok)
    \/ \E authenticated \in BOOLEAN : AuthEnter(authenticated)
    \/ \E ok \in BOOLEAN : SaveOpen(ok)
    \/ \E ok \in BOOLEAN : SaveDump(ok)
    \/ AuthEnds

\* authenticate_interactive calls over a session file of any content, while
\* days pass
SessionSpec == InitWith(StoredFiles) /\ [][SessionNext]_vars

\* ============================================ BrowserService.add_random_pause
\* the seconds of the time.sleep of the except branch (line 558)
FallbackPause == 3

\* the values pause_min and pause_max are set to, in seconds
PauseValues == -2 .. MaxPause

Min(a, b) == IF a <= b THEN a ELSE b
Max(a, b) == IF a >= b THEN a ELSE b

\* the values random.uniform(a, b) can return: a + (b - a) * random(),
\* which lies between the smaller and the larger of a and b
Uniform(a, b) == Min(a, b) .. Max(a, b)

\* the program sets settings.application.pause_min and pause_max: two
\* dataclass fields, assigned without validation
SetPause(lo, hi) ==
    /\ pause_min' = lo
    /\ pause_max' = hi
    /\ UNCHANGED <<max_applications, api_key_set, storeVars, browserVars, call, pc,
                   use_ai, vacancies, idx, ai_suitable, loopVars, ret, found, init_ok,
                   ai_rejected, close_ran, interrupted, trace, scoring, serviceVars>>

\* what add_random_pause does when random.uniform returned d: time.sleep(d)
\* sleeps d seconds, or raises ValueError for a negative d, and then the
\* except branch sleeps FallbackPause seconds
PauseTaken(d) ==
    [ran |-> TRUE, slept |-> IF d < 0 THEN FallbackPause ELSE d, fell_back |-> d < 0,
     lo |-> pause_min, hi |-> pause_max]

\* BrowserService.add_random_pause(); d: what random.uniform returned
AddRandomPause(d) ==
    /\ d \in Uniform(pause_min, pause_max)
    /\ pacing' = PauseTaken(d)
    /\ UNCHANGED <<orchestratorVars, applicator, auth, analysis, browser_service>>

PacingNext ==
    \/ \E lo, hi \in PauseValues : SetPause(lo, hi)
    \/ \E d \in PauseValues : AddRandomPause(d)

\* add_random_pause calls under any setting of pause_min and pause_max
PacingSpec == Init /\ [][PacingNext]_vars

\* ================================================== the scoring stage
\* the Gemini answers of the scoring stage: those of AiResponses, and
\* numbers below, at and above the threshold and out of range, with a list
\* of reasons, an empty list and none
ScoredResponses ==
    AiResponses \cup
    {AiResponse("number", Float(x), r) :
        x \in {-2, 3, 7, 12}, r \in {"list", "empty", "missing"}}

ScoringNext ==
    \/ \E vs \in ScoredLists(MaxScored) : StartAiFilter(vs)
    \/ \E resp \in ScoredResponses : AiStep(resp)
    \/ AiReturn
    \/ CallEnds

\* _ai_filter_vacancies calls on vacancies of every field combination
ScoringSpec == Init /\ [][ScoringNext]_vars

\* ============================ GeminiAIService.analyze_vacancy_match
\* service.analyze_vacancy_match(v) is called; resp: what the Gemini request
\* comes to, when one is made
CallAnalyzeVacancyMatch(v, resp) ==
    /\ Len(analysis) < MaxAnalyses
    /\ analysis' = Append(analysis, AnalyzeVacancyMatch(v, api_key_set, resp, analysis))
    /\ UNCHANGED <<orchestratorVars, applicator, auth, pacing, browser_service>>

AnalysisNext ==
    \E n \in 1 .. MaxNames, k \in AnalysedKinds :
        \E resp \in {AiResponse("request_error", Float(0), "list"),
                     AiResponse("number", Float(7), "list")} :
            CallAnalyzeVacancyMatch(Vacancy(n, k), resp)

\* analyze_vacancy_match calls, on a service with and without an API key
AnalysisSpec == Init /\ [][AnalysisNext]_vars

\* ================================= BrowserService, call by call
\* the n-th Chrome instance webdriver.Chrome(...) returns
Chrome(n) == "chrome" \o ToString(n)

\* how a call of initialize goes: to its end; an exception before
\* self.driver is assigned (driver download, Chrome start); an exception of
\* AuthenticationHandler(self.driver), whose SessionManager makes the
\* session directory, after self.driver and self.wait were assigned
InitializeOutcomes == {"ok", "chrome_raises", "handler_raises"}

\* BrowserService.is_ready
ServiceIsReady(s) == IsReady(s.driver, s.is_authenticated) /\ s.applicator # None

\* BrowserService.initialize (lines 497-520)
ServiceInitialize(outcome) ==
    /\ browser_service.launched < MaxDrivers
    /\ LET s == browser_service
           new == Chrome(s.launched + 1)
           called == [s EXCEPT !.op = "initialize", !.acted = outcome # "chrome_raises",
                               !.ready_at_call = ServiceIsReady(s)]
       IN  browser_service' =
             CASE outcome = "chrome_raises" ->
                    [called EXCEPT !.out = Returned(FALSE)]
               [] outcome = "handler_raises" ->
                    [called EXCEPT !.out = Returned(FALSE), !.driver = new,
                                   !.launched = s.launched + 1]
               [] OTHER ->
                    [called EXCEPT !.out = Returned(TRUE), !.driver = new,
                                   !.applicator = new, !.auth_handler = new,
                                   !.launched = s.launched + 1, !.initialized = TRUE]
    /\ UNCHANGED <<orchestratorVars, applicator, auth, pacing, analysis>>

\* BrowserService.authenticate_interactive (lines 522-532); success: what
\* the handler's authenticate_interactive returns
ServiceAuthenticateInteractive(success) ==
    /\ LET s == browser_service
           called == [s EXCEPT !.op = "authenticate_interactive",
                               !.ready_at_call = ServiceIsReady(s)]
       IN  browser_service' =
             IF s.driver = None \/ s.auth_handler = None
             THEN [called EXCEPT !.out = Returned(FALSE), !.acted = FALSE]
             ELSE IF success
                  THEN [called EXCEPT !.out = Returned(TRUE), !.is_authenticated = TRUE,
                                      !.authed_on = s.auth_handler,
                                      !.authenticated = TRUE, !.acted = TRUE]
                  ELSE [called EXCEPT !.out = Returned(FALSE), !.acted = TRUE]
    /\ UNCHANGED <<orchestratorVars, applicator, auth, pacing, analysis>>

\* BrowserService.apply_to_vacancy(vacancy_url, vacancy_name) (lines 534-546)
ServiceApplyToVacancy(v) ==
    /\ LET s == browser_service
       IN  browser_service' =
             [s EXCEPT !.out = Returned(BrowserApplyToVacancy(v, s.driver, s.is_authenticated)),
                       !.op = "apply_to_vacancy",
                       !.ready_at_call = ServiceIsReady(s),
                       !.acted = ServiceIsReady(s)]
    /\ UNCHANGED <<orchestratorVars, applicator, auth, pacing, analysis>>

\* BrowserService.close (lines 560-573): driver.quit() when there is a
\* driver, whether or not it raises, and the finally block
ServiceClose ==
    /\ LET s == browser_service
       IN  browser_service' =
             [s EXCEPT !.out = Returned(None), !.driver = None, !.applicator = None,
                       !.is_authenticated = FALSE, !.auth_handler = None,
                       !.authed_on = None, !.initialized = FALSE,
                       !.authenticated = FALSE, !.op = "close",
                       !.ready_at_call = ServiceIsReady(s), !.acted = s.driver # None]
    /\ UNCHANGED <<orchestratorVars, applicator, auth, pacing, analysis>>

BrowserServiceNext ==
    \/ \E outcome \in InitializeOutcomes : ServiceInitialize(outcome)
    \/ \E success \in BOOLEAN : ServiceAuthenticateInteractive(success)
    \/ \E k \in VacancyKinds : ServiceApplyToVacancy(Vacancy(1, k))
    \/ ServiceClose

\* any sequence of initialize, authenticate_interactive, apply_to_vacancy
\* and close calls on one BrowserService
BrowserServiceSpec == Init /\ [][BrowserServiceNext]_vars

\* ============================================================= claims
\* the submission loop is running or has run in the current call
InLoopCall == call \in {"loop", "pipeline"}

C2_AttemptsInOrderUntilCap ==
    /\ InLoopCall => processed_count <= Len(vacancies)
    /\ (call = "loop" /\ pc = "done" /\ ret.kind = "returned") =>
          /\ \/ processed_count = Len(vacancies)
             \/ CountSuccess(application_results) >= max_applications
          /\ processed_count > 0 =>
                CountSuccess(SubSeq(application_results, 1, processed_count - 1))
                    < max_applications
    /\ ( /\ call = "loop" /\ pc = "done" /\ ret.kind = "returned"
         /\ Len(vacancies) = 5
         /\ max_applications = 3
         /\ IsReady(driver, is_authenticated)
         /\ \A i \in 1 .. 3 : vacancies[i].page = "confirm" ) =>
          /\ processed_count = 3
          /\ Len(ret.val) = 3
          /\ CountSuccess(ret.val) = 3

\* C3: every candidate the loop has started to process has exactly one
\* ApplicationResult in the outcome list, never zero and never two.
C3_ExactlyOneResultPerProcessed ==
    InLoopCall =>
        \A i \in 1 .. processed_count :
            Cardinality({j \in DOMAIN application_results :
                            application_results[j].vacancy_name = vacancies[i].name}) = 1

\* C4: the recorded outcomes are in the order of the candidate list: the
\* i-th recorded outcome belongs to the i-th candidate, so no outcome of a
\* later candidate stands before the outcome of an earlier one.
C4_OutcomesInCandidateOrder ==
    InLoopCall =>
        /\ Len(application_results) <= Len(vacancies)
        /\ \A i \in DOMAIN application_results :
              application_results[i].vacancy_name = vacancies[i].name

\* C4 witness: a loop that has returned the outcomes of at least three
\* candidates.
C4_Witness ==
    /\ call = "loop"
    /\ pc = "done"
    /\ ret.kind = "returned"
    /\ Len(ret.val) >= 3

\* the vacancies of the search result that a filter stage removed
RemovedByFilters ==
    {found[i].name : i \in {j \in DOMAIN found : ~IsSuitableBasic(found[j])}}
        \cup ai_rejected

\* C5: a candidate removed by the rule filter or by the AI/rule-score filter
\* stage is never passed on to browser initialisation and the submission
\* loop and never receives an ApplicationResult in that run; the list
\* _ai_filter_vacancies returns holds no candidate should_apply turned down.
C5_FilteredNeverAttempted ==
    /\ call = "pipeline" =>
          /\ \A j \in DOMAIN application_results :
                application_results[j].vacancy_name \notin RemovedByFilters
          /\ pc \in {"init", "login_wait", "loop", "stats"} =>
                Names(vacancies) \cap RemovedByFilters = {}
    /\ (call = "ai_filter" /\ pc = "done" /\ ret.kind = "returned") =>
          Names(ret.val) \cap ai_rejected = {}

\* C5 witness: a pipeline run that has returned, whose search found a
\* candidate the rule filter does not accept, and that recorded no outcome.
C5_Witness ==
    /\ call = "pipeline"
    /\ pc = "done"
    /\ \E i \in DOMAIN found : ~IsSuitableBasic(found[i])
    /\ application_results = <<>>

\* C6: an error raised while one candidate is processed is caught in the
\* loop and recorded as a Failed outcome (success = false, not already
\* applied, not skipped) for that candidate, and the loop goes on: a loop
\* that no interrupt stopped returns its outcome list after the last
\* candidate (or at the cap).
C6_FaultBecomesFailedOutcome ==
    /\ InLoopCall =>
          \A n \in faulted :
              \E j \in DOMAIN application_results :
                  /\ application_results[j].vacancy_name = n
                  /\ IsFailed(application_results[j])
    /\ (call = "loop" /\ pc = "done" /\ interrupted = "no") =>
          /\ ret = Returned(application_results)
          /\ \/ processed_count = Len(vacancies)
             \/ successful_count >= max_applications

\* C6 witness: the loop went on after a fault: two candidates have faulted
\* and both have their outcome.
C6_Witness ==
    /\ call = "loop"
    /\ Cardinality(faulted) >= 2
    /\ Len(application_results) >= 2
    /\ interrupted = "no"

\* C7: whenever execute_automation_pipeline has returned, whatever the exit
\* path, BrowserService.close() has run in that call, the service holds no
\* driver and is not authenticated, and the call returned a result.
C7_CleanupOnEveryExit ==
    (call = "pipeline" /\ pc = "done") =>
        /\ close_ran
        /\ driver = None
        /\ ~is_authenticated
        /\ ret.kind = "returned"

\* C7 witness: a pipeline run that a user interrupt ended has returned
\* after close().
C7_Witness ==
    /\ call = "pipeline"
    /\ pc = "done"
    /\ interrupted # "no"
    /\ close_ran

\* C8: if the search returns nothing, a filter stage empties the candidate
\* set, or browser initialisation/authentication fails, the pipeline returns
\* a dict holding only the error field and no candidate was attempted.
C8_ShortCircuitReturnsOnlyError ==
    ( /\ call = "pipeline" /\ pc = "done" /\ interrupted = "no"
      /\ (found = <<>> \/ vacancies = <<>> \/ init_ok = "no") ) =>
        /\ ret.kind = "returned"
        /\ DOMAIN ret.val = {"error"}
        /\ processed_count = 0
        /\ application_results = <<>>

\* C8 witness: the search found candidates, the filter stage left none, and
\* the pipeline returned the error.
C8_Witness ==
    /\ call = "pipeline"
    /\ pc = "done"
    /\ found # <<>>
    /\ vacancies = <<>>
    /\ ret = Returned(ErrorDict("no_suitable_vacancies"))

\* the number of outcomes of each kind
NumFailed(rs) == Cardinality({i \in DOMAIN rs : IsFailed(rs[i])})
NumSkipped(rs) == Cardinality({i \in DOMAIN rs : IsSkipped(rs[i])})
NumAlreadyApplied(rs) == Cardinality({i \in DOMAIN rs : IsAlreadyApplied(rs[i])})

\* C9: _create_stats on the outcomes of a completed loop returns a
\* statistics record, not an error: total is the number of outcomes, each
\* count is the number of outcomes of that kind, and total is their sum.
C9_StatsFoldOutcomes ==
    (call = "stats" /\ pc = "done" /\ interrupted = "no") =>
        /\ ret.kind = "returned"
        /\ ret.val =
              [already_applied |-> NumAlreadyApplied(application_results),
               skipped |-> NumSkipped(application_results),
               successful |-> CountSuccess(application_results),
               total_applications |-> Len(application_results),
               failed |-> NumFailed(application_results)]
        /\ ret.val.total_applications =
              ret.val.successful + ret.val.failed + ret.val.already_applied
                  + ret.val.skipped

\* C10: a user interrupt does not cut a candidate's processing short: when
\* an interrupt has stopped the loop, every candidate the loop had started
\* has its outcome recorded.
C10_InterruptOnlyBetweenCandidates ==
    (InLoopCall /\ interrupted # "no" /\ pc \in {"cleanup", "done"}) =>
        Len(application_results) = processed_count

\* C11: when a user interrupt stops the submission loop after outcomes were
\* recorded, they are kept: the call the interrupt ended still hands back
\* every outcome recorded before it (_apply_to_vacancies its list, the
\* pipeline a result that is not the bare error).
C11_InterruptKeepsOutcomes ==
    ( /\ InLoopCall /\ pc = "done"
      /\ interrupted \in {"loop", "mid_candidate"}
      /\ application_results # <<>> ) =>
        /\ ret.kind = "returned"
        /\ call = "loop" => ret.val = application_results
        /\ call = "pipeline" => DOMAIN ret.val # {"error"}

\* the candidates handed to BrowserService.apply_to_vacancy, in order
Attempts == ArgsOf(trace, "apply_to_vacancy")

\* C12: within one run each candidate of the candidate list is submitted to
\* the browser at most once: no candidate is attempted a second time,
\* whatever its first attempt gave.
C12_AtMostOneAttempt ==
    InLoopCall =>
        /\ \A i, j \in DOMAIN Attempts : Attempts[i] = Attempts[j] => i = j
        /\ \A i \in DOMAIN Attempts : Attempts[i] \in Names(vacancies)

\* C12 witness: a loop that has returned after three attempts, each of which
\* ended in the except branch.
C12_Witness ==
    /\ call = "loop"
    /\ pc = "done"
    /\ Len(Attempts) >= 3
    /\ \A i \in DOMAIN Attempts : Attempts[i] \in faulted

\* the longest the sleeps and bounded waits of one apply_to_vacancy call last
MaxApplySeconds ==
    SleepAfterGet + SleepAfterClick + SleepBeforeSubmit + SleepAfterSubmit
        + NumModalSelectors * ModalWaitSeconds
        + NumSubmitSelectors * SubmitWaitSeconds

\* C13: for every behaviour of the page, a VacancyApplicator.apply_to_vacancy
\* call terminates, within its bounded sleeps and waits, and returns (never
\* raises) one ApplicationResult for its candidate, at most one of whose
\* flags success, already_applied, skipped is set; when after the click on
\* the apply button no modal, no form or no clickable submit button turned
\* up within the waits, that result is Skipped or Failed.
C13_ApplicatorAlwaysReturnsOneOutcome ==
    /\ [](applicator.pc = "done" =>
            /\ applicator.out.kind = "returned"
            /\ applicator.elapsed <= MaxApplySeconds
            /\ LET r == applicator.out.val
               IN  /\ r.vacancy_name = applicator.name
                   /\ ~(r.success /\ r.already_applied)
                   /\ (HasAttr(r, "skipped") /\ r["skipped"]) =>
                         ~r.success /\ ~r.already_applied
                   /\ ( /\ applicator.apply_clicks > 0
                        /\ \/ applicator.modal = 0
                           \/ applicator.form = 0
                           \/ applicator.submit_clicks = 0 ) =>
                         ~r.success /\ ~r.already_applied)
    /\ (applicator.pc = "get" ~> applicator.pc = "done")

\* C13 witness: a call has returned after every modal wait timed out.
C13_Witness ==
    /\ applicator.pc = "done"
    /\ applicator.apply_clicks = 1
    /\ applicator.modal = 0
    /\ applicator.out.kind = "returned"
    /\ applicator.elapsed >= NumModalSelectors * ModalWaitSeconds

\* the age, at the time of load_session, of the file it read
AgeAtLoad == auth.load_time - auth.load_file.timestamp

\* C14: load_session reports a session, and adds cookies to the browser,
\* only for a file that exists and whose timestamp is less than 7 days
\* before the clock; for no file, or a file of age 7 days or more, it
\* reports none, adds no cookie, and authenticate_interactive goes on to the
\* login page; a call that returned True without the login page had loaded
\* such a fresh file.
C14_LoadOnlyFreshSession ==
    /\ (auth.loaded = "yes" \/ auth.applied) =>
          /\ auth.load_file.kind = "object"
          /\ auth.load_file.ts_kind = "number"
          /\ AgeAtLoad < MaxAgeDays
    /\ ( /\ auth.loaded # "unset"
         /\ \/ auth.load_file.kind = "absent"
            \/ auth.load_file.ts_kind = "number" /\ AgeAtLoad >= MaxAgeDays ) =>
          /\ auth.loaded = "no"
          /\ ~auth.applied
          /\ auth.pc = "open_login" \/ auth.login_opened
    /\ (auth.pc = "done" /\ auth.out = Returned(TRUE) /\ ~auth.login_opened) =>
          /\ auth.loaded = "yes"
          /\ AgeAtLoad < MaxAgeDays

\* C14 witness: a complete record aged exactly 7 days was turned down and
\* the call stands at the login prompt.
C14_Witness ==
    /\ auth.pc = "input"
    /\ auth.loaded = "no"
    /\ IsCompleteRecord(auth.load_file)
    /\ AgeAtLoad = MaxAgeDays
    /\ auth.login_opened

\* C15: whenever the stored file is not a complete well-formed record
\* (unparseable or truncated text, no or malformed cookie entries, no or a
\* non-numeric timestamp), load_session returns and reports no session:
\* every file it reported as loaded was a complete record.
C15_IncompleteFileNeverLoaded ==
    auth.loaded = "yes" => IsCompleteRecord(auth.load_file)

\* C16: during and after save_session the file is the previous file or the
\* complete new record: no step of a save leaves anything else.
C16_SaveIsAtomic ==
    [][auth.pc \in {"save", "save_dump"} =>
          \/ cookies_file' = cookies_file
          \/ IsCompleteRecord(cookies_file')]_vars

\* C17: a call of authenticate_interactive that begins with no file or a
\* complete record ends with no file or a complete record, and a call that
\* returned True reused the loaded record or went through the login page.
C17_CallsKeepStoreWhole ==
    /\ ( /\ auth.pc = "done"
         /\ auth.start_file = AbsentFile \/ IsCompleteRecord(auth.start_file) ) =>
          cookies_file = AbsentFile \/ IsCompleteRecord(cookies_file)
    /\ (auth.pc = "done" /\ auth.out = Returned(TRUE)) =>
          auth.loaded = "yes" \/ auth.login_opened

\* C18: every pause of add_random_pause, the one of the except branch
\* included, lasts between the pause_min and the pause_max configured when
\* it was taken.
C18_PauseWithinConfiguredRange ==
    pacing.ran => pacing.lo <= pacing.slept /\ pacing.slept <= pacing.hi

\* the pauses a loop owes after processed_count attempts: one after each
\* attempt but the last, and one after the last when another attempt follows
PausesBetweenAttempts ==
    IF processed_count = 0 THEN 0
    ELSE processed_count - 1 + (IF LoopContinues THEN 1 ELSE 0)

\* C19: in a submission loop that no interrupt stopped there is one pause
\* after every attempt that another attempt follows, whatever its outcome,
\* and no other pause: none before the first attempt, none after the attempt
\* that reaches the cap, none after the last candidate.
C19_PauseBetweenAttempts ==
    (InLoopCall /\ interrupted = "no" /\ (pc = "loop" \/ (call = "loop" /\ pc = "done"))) =>
        pauses = PausesBetweenAttempts

\* the responses with which AI scoring failed: no answer, or no number as
\* match_score
FailedResponses ==
    {"request_error", "non_200", "non_json", "no_match_score", "text", "null",
     "boolean", "nan"}

\* C20: for every candidate of the AI filter whose scoring failed (request
\* error or timeout, non-200 status, no JSON, no or a non-numeric
\* match_score) or whose AI service is unavailable, the score decided on is
\* the one of _basic_analysis and the candidate is retained exactly when
\* that score reaches the threshold; and _ai_filter_vacancies returns its
\* list, it never raises.
C20_ScoringFailureFallsBackToRuleScore ==
    /\ ( /\ scoring.ran
         /\ ~api_key_set \/ scoring.response \in FailedResponses ) =>
            /\ scoring.score = BasicScore(scoring.vacancy)
            /\ scoring.retained <=> BasicScore(scoring.vacancy) >= MatchThreshold
    /\ (call = "ai_filter" /\ pc = "done" /\ interrupted = "no") =>
            ret.kind = "returned"

\* the fields of a vacancy other than its name
SameFields(v, w) ==
    [v EXCEPT !.id = "", !.name = 0] = [w EXCEPT !.id = "", !.name = 0]

C22_ScoreAndReasonsStored ==
    scoring.ran =>
        /\ scoring.stored
        /\ MinAiScore <= scoring.ai_match_score
        /\ scoring.ai_match_score <= MaxAiScore
        /\ scoring.ai_match_reasons # <<>>

\* the candidate of the last should_apply call is in ai_suitable
LastScoredRetained ==
    \E i \in DOMAIN ai_suitable : ai_suitable[i] = scoring.vacancy

\* C23: in the scoring stage the candidate just scored is in the retained
\* list if and only if its score, the rule score when the AI is unavailable
\* or its answer carries no number, is at least the match threshold; it is
\* counted as turned down otherwise.
C23_RetainedIffScoreReachesThreshold ==
    (call = "ai_filter" /\ scoring.ran) =>
        /\ LastScoredRetained <=> scoring.score >= MatchThreshold
        /\ scoring.vacancy.name \in ai_rejected <=> scoring.score < MatchThreshold
        /\ (~api_key_set \/ scoring.response \in FailureKinds) =>
              scoring.score = BasicScore(scoring.vacancy)
        /\ scoring.score \in MinAiScore .. MaxAiScore

\* C23 witness: a candidate whose rule score, taken on a failed request, is
\* exactly the threshold was retained.
C23_Witness ==
    /\ call = "ai_filter"
    /\ scoring.ran
    /\ api_key_set
    /\ scoring.response = "request_error"
    /\ scoring.score = MatchThreshold
    /\ LastScoredRetained

\* what the rule filter is to return for a search made without keyword: the
\* vacancies, in order, that are not archived, have no exclude keyword in
\* their text and match the relevant-skill pattern
RuleFilterExpected(fs) ==
    SelectSeq(fs, LAMBDA v : ~v.archived /\ ~v.exclude_kw /\ v.python)

\* C24: the candidates the pipeline goes on with after its search stage are,
\* in input order, exactly those of the search result that are not archived,
\* carry no exclude keyword and match the skill pattern; the stage reports
\* "no suitable vacancies" only when there is none.
C24_RuleFilterKeepsExactlyTheSuitable ==
    call = "pipeline" =>
        /\ pc \in {"ai", "init"} /\ ai_suitable = <<>> => vacancies = RuleFilterExpected(found)
        /\ ret = Returned(ErrorDict("no_suitable_vacancies")) =>
              RuleFilterExpected(found) = <<>>

\* C25: every result in application_results carries the id and the name of
\* a candidate of the run, and at most one of success, already_applied and
\* skipped is true on it.
C25_ResultCarriesIdentifierAndOneKind ==
    call \in {"pipeline", "loop"} =>
    \A i \in DOMAIN application_results :
        LET r == application_results[i]
        IN  /\ \E j \in DOMAIN vacancies :
                  /\ r.vacancy_id = vacancies[j].id
                  /\ r.vacancy_name = vacancies[j].name
            /\ ~(r.success /\ r.already_applied)
            /\ HasAttr(r, "skipped") => ~(r["skipped"] /\ (r.success \/ r.already_applied))

\* the result apply_to_vacancy has returned is a Success
ReturnedSuccess ==
    /\ applicator.out.kind = "returned"
    /\ applicator.out.val.success

\* the steps of one apply_to_vacancy call happen in the order of the
\* procedure: none has happened unless the one before it has
StepsInOrder ==
    /\ applicator.text.read => applicator.button # 0
    /\ applicator.apply_clicks > 0 =>
          /\ applicator.text.read
          /\ ~IsAlreadyAppliedText(applicator.text.phrases)
          /\ applicator.apply_clicks = 1
    /\ applicator.modal # 0 => applicator.apply_clicks = 1
    /\ applicator.form # 0 => applicator.modal # 0
    /\ applicator.submit_clicks > 0 => applicator.form # 0

\* C26: apply_to_vacancy returns a Success only when, in this order, an
\* apply button was found, its text held no already-applied phrase, it was
\* clicked, a modal was found, a form was found and a submit button was
\* clicked; and once the call has its result, nothing more is done in the
\* browser for it.
C26_SuccessOnlyAfterEveryStep ==
    /\ [](StepsInOrder /\ (ReturnedSuccess =>
             /\ applicator.button # 0
             /\ applicator.text.read
             /\ applicator.apply_clicks = 1
             /\ applicator.modal # 0
             /\ applicator.form # 0
             /\ applicator.submit_clicks >= 1
             /\ applicator.submit_result = "SUCCESS"))
    /\ [][applicator.out # NoRet => applicator' = ApplicatorIdle]_vars

C26_Witness ==
    /\ applicator.pc = "done"
    /\ ReturnedSuccess
    /\ applicator.button > 1
    /\ applicator.modal > 1
    /\ applicator.form > 1
    /\ applicator.submit_clicks > 1

\* C27: when the text of the apply button holds an already-applied phrase,
\* apply_to_vacancy returns a result with already_applied true and success
\* false, and neither the apply button nor a submit button is clicked and no
\* modal is waited for.
C27_AlreadyAppliedIsNeverClicked ==
    (applicator.text.read /\ applicator.text.phrases # {}) =>
        /\ applicator.pc = "done"
        /\ applicator.out =
              Returned(ApplicationResult(applicator.name, FALSE, TRUE, "already_applied"))
        /\ applicator.apply_clicks = 0
        /\ applicator.submit_clicks = 0
        /\ applicator.modal = 0
        /\ applicator.submit_result = "none"

C27_Witness ==
    /\ applicator.pc = "done"
    /\ applicator.button = NumApplySelectors
    /\ applicator.text.read
    /\ applicator.text.phrases = {NumAlreadyAppliedIndicators}

\* C28: when, after the click on the apply button, no modal appears within
\* the waits, or a modal appears and no form is found in it, apply_to_vacancy
\* returns a Skipped result (not a Failed one) whose message tells which of
\* the two was missing, and no submit button was clicked.
C28_MissingModalOrFormIsSkipped ==
    (applicator.pc = "done" /\ applicator.submit_result = "SKIPPED") =>
        /\ applicator.out.kind = "returned"
        /\ IsSkipped(applicator.out.val)
        /\ applicator.out.val.error_message =
              IF applicator.modal = 0 THEN "modal_not_found" ELSE "form_not_found"
        /\ applicator.submit_clicks = 0

\* C29: the apply selectors are probed in the order of APPLY_SELECTORS, one
\* find_element each; the first one that finds an element gives the button
\* and no later one is probed; when every one of them finds nothing, the
\* result is a Failed one with the message of the missing button and
\* nothing was clicked.
C29_FirstMatchingApplySelectorWins ==
    LET probed == applicator.probed
    IN  /\ \A i \in DOMAIN probed :
              /\ probed[i].selector = i
              /\ i < Len(probed) => probed[i].resp = "no_such_element"
        /\ Len(probed) <= NumApplySelectors
        /\ applicator.button # 0 =>
              /\ Len(probed) = applicator.button
              /\ probed[applicator.button].resp = "found"
        /\ ( /\ Len(probed) = NumApplySelectors
             /\ probed[NumApplySelectors].resp = "no_such_element" ) =>
              /\ applicator.pc = "done"
              /\ applicator.out =
                    Returned(ApplicationResult(applicator.name, FALSE, FALSE,
                                               "button_not_found"))
              /\ applicator.apply_clicks = 0
              /\ applicator.submit_clicks = 0

C29_Witness ==
    /\ applicator.pc = "done"
    /\ Len(applicator.probed) = NumApplySelectors
    /\ applicator.probed[NumApplySelectors].resp = "no_such_element"

C29_WitnessMatch ==
    /\ applicator.button = 3
    /\ applicator.apply_clicks = 1

\* C30: when the form was found and no submit selector gave a clickable
\* button within its wait, apply_to_vacancy returns a Failed result whose
\* message tells that the submit button was not found; a Failed result
\* returned after a submit button was clicked carries another message.
C30_MissingSubmitHasItsOwnReason ==
    ( /\ applicator.pc = "done"
      /\ applicator.form # 0
      /\ applicator.submit_result = "FAILED" ) =>
        /\ applicator.out.kind = "returned"
        /\ IsFailed(applicator.out.val)
        /\ applicator.out.val.error_message = "submit_not_found"
              <=> applicator.submit_clicks = 0

\* one of the four signs of a confirmed submission is on the page, read in
\* their order: a visible success element; or, the reads not faulting, a
\* success phrase, a success URL, or the modal found before being gone
SubmissionConfirmed(obs) ==
    \/ obs.element
    \/ ~obs.fault /\ (obs.text \/ obs.url \/ ~obs.surface)

\* C31: after the click on a submit button, apply_to_vacancy returns a
\* Success exactly when one of the four signs holds on the page (success
\* element, success phrase, success URL, modal gone); when none holds or the
\* check faults, it returns a Failed result with the failed-submission
\* message.
C31_ConfirmedIffASignHolds ==
    (applicator.pc = "done" /\ applicator.checks > 0) =>
        /\ applicator.out.kind = "returned"
        /\ applicator.out.val.success <=> SubmissionConfirmed(applicator.after_submit)
        /\ ~SubmissionConfirmed(applicator.after_submit) =>
              /\ IsFailed(applicator.out.val)
              /\ applicator.out.val.error_message = "submit_failed"

\* C36: the last check of _check_success_message never confirms a submission
\* while the modal that was found before the submit, through whichever modal
\* selector, is still shown: with no success element, phrase or URL on the
\* page, the submission is then not confirmed.
C36_ShownModalNeverConfirms ==
    ( /\ applicator.checks > 0
      /\ applicator.after_submit.surface
      /\ ~applicator.after_submit.element
      /\ ~applicator.after_submit.text
      /\ ~applicator.after_submit.url ) =>
        applicator.submit_result = "FAILED"

\* C37: in one apply_to_vacancy call at most one click on a submit button is
\* issued, whether that click returns or raises.
C37_SubmitClickedAtMostOnce ==
    applicator.submit_clicks <= 1

C32_WitnessUsed ==
    /\ auth.pc = "done"
    /\ auth.probed_loaded = "authenticated"
    /\ cookies_file = SessionRecord(NowStart)

\* the session file as the call left it before the login page was opened
FileBeforeLogin == IF auth.cleared = "unlinked" THEN AbsentFile ELSE auth.start_file

\* C33 as stated: every authenticate_interactive call that returns True
\* after an interactive login leaves in the store a complete session record
\* stamped with the time of the save.
C33_EveryLoginLeavesNewRecord ==
    (auth.pc = "done" /\ auth.entered = "authenticated") =>
        /\ auth.out = Returned(TRUE)
        /\ cookies_file = SessionRecord(auth.save_time)

\* C33, amended: on the login path the check runs only once input() has
\* returned, which nothing times out; the call returns True exactly when
\* that check succeeds; a failed check saves nothing; after a successful
\* check save_session is called, and when it returns True the store holds a
\* complete record stamped with the time of the save, while a save that
\* fails leaves the call successful and the store without a new record.
C33_LoginSucceedsIffCheckedAndSavesWhenItCan ==
    /\ auth.entered # "unset" => auth.login_opened
    /\ auth.pc = "input" => auth.entered = "unset" /\ auth.out = NoRet
    /\ (auth.pc = "done" /\ auth.login_opened) =>
          (auth.out = Returned(TRUE) <=> auth.entered = "authenticated")
    /\ auth.entered = "not_authenticated" =>
          /\ auth.pc = "done"
          /\ auth.saved = "unset"
          /\ cookies_file = FileBeforeLogin
    /\ (auth.pc = "done" /\ auth.entered = "authenticated") => auth.saved # "unset"
    /\ auth.saved # "unset" => auth.entered = "authenticated"
    /\ auth.saved = "yes" =>
          /\ cookies_file = SessionRecord(auth.save_time)
          /\ IsCompleteRecord(cookies_file)
          /\ auth.load_time <= auth.save_time /\ auth.save_time <= now
    /\ auth.saved = "failed" =>
          /\ auth.out = Returned(TRUE)
          /\ cookies_file \in {FileBeforeLogin, UnparseableFile}

C33_Witness ==
    /\ auth.pc = "done"
    /\ auth.entered = "authenticated"
    /\ auth.saved = "yes"
    /\ auth.start_file = AbsentFile
    /\ auth.save_time > NowStart
    /\ cookies_file = SessionRecord(auth.save_time)

\* the last should_apply call of the scoring stage decided on the rule score
RuleScored == scoring.ran /\ (~api_key_set \/ scoring.response \in FailureKinds)

\* C34: the rule score of a candidate, in tenths, is 1 when the skill
\* pattern does not match, with the missing-skill reason as its only reason,
\* and the candidate is then turned down; otherwise it is 4, plus 3 at
\* junior level or else 2 for an acceptable experience id, plus 1 without a
\* test, plus 1 when not archived, and at most 10.  It lies between 0 and 10
\* for every combination of the fields.
C34_RuleScoreIsTheSumOfItsParts ==
    RuleScored =>
        LET v == scoring.vacancy
            sum == 4 + (IF v.junior THEN 3 ELSE IF v.exp_ok THEN 2 ELSE 0)
                     + (IF v.has_test THEN 0 ELSE 1)
                     + (IF v.archived THEN 0 ELSE 1)
        IN  /\ ~v.python =>
                  /\ scoring.score = 1
                  /\ scoring.score < MatchThreshold
                  /\ ~scoring.retained
                  /\ call = "ai_filter" => ~LastScoredRetained
                  /\ scoring.stored => scoring.ai_match_reasons = <<"no_python">>
            /\ v.python =>
                  /\ scoring.score = (IF sum > 10 THEN 10 ELSE sum)
                  /\ scoring.stored => scoring.ai_match_reasons[1] = "has_python"
            /\ scoring.score \in 0 .. 10

\* C34 witness: a junior vacancy with an acceptable experience id, no test
\* and not archived was scored 9 by rule, and retained.
C34_Witness ==
    /\ RuleScored
    /\ scoring.vacancy.python /\ scoring.vacancy.junior /\ scoring.vacancy.exp_ok
    /\ ~scoring.vacancy.has_test /\ ~scoring.vacancy.archived
    /\ scoring.score = 9
    /\ scoring.retained

\* a vacancy without the skill was scored 1 by rule, its reason stored, and
\* turned down
C34_WitnessNoSkill ==
    /\ RuleScored
    /\ ~scoring.vacancy.python
    /\ scoring.stored
    /\ scoring.ai_match_reasons = <<"no_python">>
    /\ scoring.vacancy.name \in ai_rejected

\* the running pipeline has called BrowserService.initialize, or is past it
BrowserStageEntered == pc \in {"init", "login_wait"} \/ init_ok # "unset"

\* C35: in a run of the pipeline the browser stage is entered only with a
\* non-empty candidate list left by the search and filter stages, the
\* submission loop only after _initialize_browser_and_auth returned True on
\* an authenticated browser, and a run whose filter stages left no candidate
\* has neither launched the browser nor attempted a candidate.
C35_StagesRunInOrder ==
    call = "pipeline" =>
        /\ BrowserStageEntered => (found # <<>> /\ vacancies # <<>>)
        /\ (pc \in {"loop", "stats"} \/ processed_count > 0) =>
              (init_ok = "yes" /\ vacancies # <<>>)
        /\ (pc = "loop" /\ processed_count > 0) => IsReady(driver, is_authenticated)
        /\ (pc \in {"cleanup", "done"} /\ vacancies = <<>> /\ interrupted = "no") =>
              /\ init_ok = "unset"
              /\ processed_count = 0
              /\ trace = <<>>

\* C35 witness: the search found candidates, the rule filter left none, and
\* the pipeline is about to clean up without having started the browser.
C35_Witness ==
    /\ call = "pipeline"
    /\ pc = "cleanup"
    /\ found # <<>>
    /\ vacancies = <<>>
    /\ init_ok = "unset"
    /\ driver = None
    /\ ~is_authenticated

\* C38: a pipeline run returns the "no suitable vacancies" error only when
\* the search returned nothing or no vacancy of its result satisfies the
\* rule filter; with at least one such vacancy the run goes on to the AI
\* filter or to browser initialisation.
C38_NoSuitableOnlyWhenReallyEmpty ==
    ( /\ call = "pipeline"
      /\ pc \in {"cleanup", "done"}
      /\ ret = Returned(ErrorDict("no_suitable_vacancies")) ) =>
        (found = <<>> \/ RuleFilterExpected(found) = <<>>)

\* the result apply_to_vacancy returns on a service that is not ready
NotReadyResult(name) == ApplicationResult(name, FALSE, FALSE, "not_ready")

\* is_ready() is true only on the driver on which authentication last
\* succeeded
ReadyOnlyOnAuthenticatedDriver ==
    ServiceIsReady(browser_service) => browser_service.driver = browser_service.authed_on

\* since the object was made or closed, is_ready() is true only once both
\* initialize and authenticate_interactive have returned True
ReadyOnlyAfterInitializeAndAuthentication ==
    /\ ServiceIsReady(browser_service) =>
          (browser_service.initialized /\ browser_service.authenticated)
    /\ browser_service.op = "close" => ~ServiceIsReady(browser_service)

\* apply_to_vacancy on a service that is not ready returns the failed
\* result and does nothing in the browser
NotReadyApplyFailsWithoutAction ==
    (browser_service.op = "apply_to_vacancy" /\ ~browser_service.ready_at_call) =>
        /\ \E n \in 1 .. MaxNames : browser_service.out = Returned(NotReadyResult(n))
        /\ ~browser_service.acted
        /\ ~ServiceIsReady(browser_service)

\* C40: after any sequence of initialize, authenticate_interactive,
\* apply_to_vacancy and close calls on a BrowserService, is_ready() is true
\* only if the current driver is the one on which authentication last
\* succeeded; after close() it is false until both initialize and
\* authentication succeed again; and apply_to_vacancy on a service that is
\* not ready returns a failed result without any browser action.
C40_ReadyMeansAuthenticatedCurrentDriver ==
    /\ ReadyOnlyOnAuthenticatedDriver
    /\ ReadyOnlyAfterInitializeAndAuthentication
    /\ NotReadyApplyFailsWithoutAction

\* C39: in a run of the submission loop on a browser that is ready, the
\* outcome recorded for the first candidate is the one
\* BrowserService.apply_to_vacancy returns for it, and when its page
\* confirms the submission that outcome is a success and the success count
\* was incremented.
C39_LoopRecordsWhatTheBrowserReturned ==
    ( /\ call = "loop"
      /\ IsReady(driver, is_authenticated)
      /\ processed_count >= 1
      /\ interrupted = "no" ) =>
        /\ application_results # <<>>
        /\ application_results[1] =
              BrowserApplyToVacancy(vacancies[1], driver, is_authenticated)
        /\ vacancies[1].page = "confirm" =>
              (application_results[1].success /\ successful_count >= 1)

====
